---- MODULE Spec2Model ----
(***************************************************************************)
(* Feed composition engine of tuneflip.                                    *)
(*                                                                         *)
(*   src/App.js            diversify, biasAndDiversify                     *)
(*   src/unnamed/part_000  V1.8  (lines 1..1371)  diversify,               *)
(*                                applyGlobalFilters, onDislike, ...       *)
(*                         V1.14 (lines 1373..)   the same, plus the       *)
(*                                played cooldown                          *)
(*                                                                         *)
(* Strings are sequences of one-character strings, so that trim() and      *)
(* toLowerCase() are computed and not assumed.  A track object is a record *)
(* whose ref field is its reference identity (Array.prototype.includes     *)
(* compares references).                                                   *)
(***************************************************************************)
EXTENDS Integers, Sequences, FiniteSets, TLC

\* ------------------------------------------------------------------ bounds
\* longest candidate list handed to diversify
MaxLen == 5
\* longest candidate list handed to biasAndDiversify
MaxLenBias == 6
\* number of distinct artists (letters) a candidate list may use
NumArtists == 5
\* how many positions of a list handed to diversify may be irregular: an
\* artist string written in another case and padded, or a track object that
\* already occurs earlier in the list
MaxIrregular == 1
\* most artists the likedArtists and the dislikedArtists set hold together
MaxPrefs == 2
\* most tracks of a fetched list that no stage of applyGlobalFilters removes
MaxClean == 12
\* most tracks of a fetched list that some stage may remove
MaxDefects == 2
\* most tracks a fetch of the running app returns
MaxFeed == 6
\* how often the app is started
MaxLaunches == 2
\* most genre ids a caller passes to fetchTracksForGenres
MaxIds == 2
\* how often the closure of rng is called
MaxDraws == 3
\* most records the backend lists in one response
MaxBucket == 2
\* longest list handed to dedupeById
MaxDedupe == 3
\* loadMore is no longer called once the feed is this long
MaxAppFeed == 3

\* ------------------------------------------------------- program constants
\* App.js: const PAGE = 20 (default target)
PAGE_APP == 20
\* part_000: const PAGE = 20;
PAGE == 20
\* part_000: const ARTIST_COOLDOWN = 3;
ARTIST_COOLDOWN == 3
\* part_000: const PER_ARTIST_CAP = 2;
PER_ARTIST_CAP == 2
\* App.js biasAndDiversify passes maxPerArtist: 2, cooldown: 3
BIAS_MAX_PER_ARTIST == 2
BIAS_COOLDOWN == 3

VARIABLES
  \* ---- diversify / biasAndDiversify call (App.js, part_000 diversify)
  items,            \* the candidate sequence (argument)
  target,           \* the target argument
  likedArtists,     \* Set of normalized artist strings (argument)
  dislikedArtists,  \* Set of normalized artist strings (argument)
  handed,           \* the sequence biasAndDiversify hands to diversify
  result,           \* what the App.js function returned
  outV18,           \* what diversify of part_000 V1.8 returned
  outV114,          \* what diversify of part_000 V1.14 returned
  op                \* "build" | "diversify" | "biasAndDiversify"

divVars == <<items, target, likedArtists, dislikedArtists, handed, result,
             outV18, outV114, op>>

\* ---- the discovery feed of part_000 (applyGlobalFilters and the handlers
\*      that write what it reads)
VARIABLES
  rev,                   \* the revision of part_000 that runs: "V1.8" | "V1.14"
  now,                   \* Date.now(), counted in days
  cutoffRef,             \* cutoffRef.current
  dislikedPersistentRef, \* dislikedPersistentRef.current, a Set of JS values
  dislikeSet,            \* dislikeSet.current, a Set of JS values
  likedDatesRef,         \* likedDatesRef.current, an object: property -> time
  playedDatesRef,        \* playedDatesRef.current (V1.14)
  storedDisliked,        \* AsyncStorage, DISLIKED_SONGS_KEY (a JSON array)
  storedLikedDates,      \* AsyncStorage, LIKED_DATES_KEY
  storedPlayedDates,     \* AsyncStorage, PLAYED_DATES_KEY (V1.14)
  fetched,               \* what the last fetch returned
  idsForTighten,         \* the genre ids the last applyGlobalFilters call got
  tracks,                \* the tracks state: the feed on screen
  launches,              \* how often the app has been started
  userDisliked,          \* history: the track keys the user holds disliked
  fop                    \* "build" | "off" | "filtered" | "reacted"

filterVars == <<rev, now, cutoffRef, dislikedPersistentRef, dislikeSet,
                likedDatesRef, playedDatesRef, storedDisliked,
                storedLikedDates, storedPlayedDates, fetched, idsForTighten,
                tracks, launches, userDisliked, fop>>

\* ---- the seeds of fetchTracksForGenres and the generator rng (part_000)
VARIABLES
  baseSeed,      \* the seed argument of fetchTracksForGenres (perSeed)
  idsAccepted,   \* ids: the genre ids that pass the filter of the function
  bucketSeeds,   \* the seed of the bucket fetch of each accepted id
  finalSeed,     \* the seed of the final shuffle
  rngSeed,       \* the argument of the last call of rng
  rngState,      \* t, the state of the closure rng returned
  draws,         \* how often the closure was called
  sop            \* "idle" | "seed" | "derived" | "rng"

seedVars == <<baseSeed, idsAccepted, bucketSeeds, finalSeed, rngSeed,
              rngState, draws, sop>>

\* the seed state of a run that never derives a seed
IdleSeeds ==
  /\ baseSeed = <<0, 0>>
  /\ idsAccepted = <<>>
  /\ bucketSeeds = <<>>
  /\ finalSeed = <<0, 0>>
  /\ rngSeed = <<0, 0>>
  /\ rngState = 1
  /\ draws = 0
  /\ sop = "idle"

\* ---- one call of fetchTracksForGenres (part_000) and its repetition
VARIABLES
  served,         \* what the backend did with the bucket fetch of each id
  servedDefault,  \* what the backend did with the default-genre fetch
  calls,          \* the bucket fetches: "pending" | "settled"
  buckets,        \* what Promise.all collects
  defaultFetches, \* how many default-genre fetches the call has made
  mixed,          \* the interleaved buckets, before the shuffle
  fout,           \* what fetchTracksForGenres returned
  fphase,         \* "idle" | "waiting" | "fallback" | "returned" | "threw"
  run,            \* 1 for the first run of the pipeline, 2 for its repetition
  prevOut         \* how the first run ended

fetchVars == <<served, servedDefault, calls, buckets, defaultFetches, mixed,
               fout, fphase, run, prevOut>>

\* the fetch state of a run that never fetches
IdleFetch ==
  /\ served = <<>>
  /\ servedDefault = <<"unasked", 0>>
  /\ calls = <<>>
  /\ buckets = <<>>
  /\ defaultFetches = 0
  /\ mixed = <<>>
  /\ fout = <<>>
  /\ fphase = "idle"
  /\ run = 1
  /\ prevOut = [phase |-> "idle", out |-> <<>>, feed |-> <<>>]

\* ---- calls of dedupeById (part_000)
VARIABLES
  dlist,   \* the list handed to dedupeById
  dout,    \* what it returned
  dtwice,  \* what it returned when handed its own result
  dop      \* "build" | "deduped"

dedupeVars == <<dlist, dout, dtwice, dop>>

\* ---- loadMore (App.js)
VARIABLES
  appTracks,    \* the state tracks of App.js
  loads,        \* the calls of loadMore: "idle", or in flight with the
                \* tracks its closure holds
  likesRef,     \* likesRef.current
  dislikesRef   \* dislikesRef.current

loadVars == <<appTracks, loads, likesRef, dislikesRef>>

\* ---- the records of a response, normalizeTrack and the search (part_000)
VARIABLES
  rawList,        \* the records the backend lists, in the order of the tries
  term,           \* the query handed to fetchSearchTracks
  normRev,        \* the revision whose functions run
  normalized,     \* list.map(normalizeTrack)
  renormalized,   \* normalized.map(normalizeTrack)
  tracksOut,      \* what fetchTracks returned
  candidates,     \* what fetchSearchTracks hands to diversify
  searchOut,      \* what fetchSearchTracks returned
  nop             \* "build" | "fetched" | "searched"

searchVars == <<rawList, term, normRev, normalized, renormalized, tracksOut,
                candidates, searchOut, nop>>

IdleSearch ==
  /\ rawList = <<>>
  /\ term = <<>>
  /\ normRev = "V1.8"
  /\ normalized = <<>>
  /\ renormalized = <<>>
  /\ tracksOut = <<>>
  /\ candidates = <<>>
  /\ searchOut = <<>>
  /\ nop = "build"

\* ---- a caller of diversify, biasAndDiversify (App.js) and
\* ---- applyGlobalFilters (part_000), and the data it owns
VARIABLES
  ownItems,     \* the array it hands over
  ownLiked,     \* the Set likedArtists it hands over
  ownDisliked,  \* the Set dislikedArtists it hands over
  ownPrefs,     \* dislikedPersistentRef, likedDatesRef, playedDatesRef
  returned,     \* the array returned: which array it is, and its elements
  cop           \* "build" | the function called

callerVars == <<ownItems, ownLiked, ownDisliked, ownPrefs, returned, cop>>

IdleCaller ==
  /\ ownItems = <<>>
  /\ ownLiked = {}
  /\ ownDisliked = {}
  /\ ownPrefs = [disliked |-> {}, likedDates |-> <<>>, playedDates |-> <<>>,
                 cutoff |-> 0]
  /\ returned = [array |-> "none", elems |-> <<>>]
  /\ cop = "build"

\* ---- one call of fetchGenres (App.js, part_000)
VARIABLES
  genreList,   \* the genres the backend has to list
  genreRev,    \* the revision whose fetchGenres runs
  answer,      \* what the backend did with the request
  genresOut,   \* how the call ended, and the list it returned
  gop          \* "build" | "done"

genreVars == <<genreList, genreRev, answer, genresOut, gop>>

IdleGenres ==
  /\ genreList = <<>>
  /\ genreRev = "V1.8"
  /\ answer = "none"
  /\ genresOut = [outcome |-> "none", list |-> <<>>]
  /\ gop = "build"

\* ---- one request to the handler of /api/log (apps/api/api/log.ts)
VARIABLES
  request,      \* method, process.env.INGEST_KEY, the header, the body
  rows,         \* the rows the handler made of the events
  cursor,       \* how many rows the loop has inserted
  txWrites,     \* the rows written in the open transaction
  eventsTable,  \* the rows of public.events every connection sees
  response,     \* the status and the error of the response, 0 while none
  lop           \* "idle" | "transaction" | "committed" | "rejected" |
                \* "responded"

logVars == <<request, rows, cursor, txWrites, eventsTable, response, lop>>

IdleLog ==
  /\ request = <<>>
  /\ rows = <<>>
  /\ cursor = 0
  /\ txWrites = <<>>
  /\ eventsTable = <<>>
  /\ response = [status |-> 0, error |-> ""]
  /\ lop = "idle"

\* ---- overlapping calls of playItem (App.js)
VARIABLES
  playTokenRef,  \* playTokenRef.current
  soundRef,      \* soundRef.current: a sound, or NoSound for null
  sounds,        \* of every sound, whether it is loaded and whether it plays
  plays          \* of every call of playItem: where it is suspended, its
                 \* token, the sound its pending operation is on, and
                 \* whether its item has a previewUrl

playVars == <<playTokenRef, soundRef, sounds, plays>>

IdlePlay ==
  /\ playTokenRef = 0
  /\ soundRef = 0 - 1
  /\ sounds = <<>>
  /\ plays = <<>>

\* ---- the reactions of App.js (setReaction and its callers); the Sets of
\* ---- likes and dislikes are likesRef and dislikesRef above
VARIABLES
  likedItemsRef,    \* likedItemsRef.current: property key -> the item kept
  currentIndexRef,  \* currentIndexRef.current
  rop               \* "idle" | the handler that ran last

reactVars == <<likedItemsRef, currentIndexRef, rop>>

IdleReact ==
  /\ likedItemsRef = <<>>
  /\ currentIndexRef = 0
  /\ rop = "idle"

\* ---- the like state of part_000 (onLike, onDislike, the toggles and the
\* ---- asynchronous functions they start); the dislikes are dislikeSet and
\* ---- dislikedPersistentRef above
VARIABLES
  likeSet,                \* likeSet.current
  likedPersistentSetRef,  \* likedPersistentSetRef.current
  likedPersistent,        \* the state likedPersistent, a list of tracks
  currentUser,            \* AsyncStorage, CURRENT_USER_KEY; <<>> for none
  storedLiked,            \* AsyncStorage, the liked lists: key suffix -> list
  asyncCalls,             \* the calls of persistAddLike and
                          \* removeFromLikesEverywhere: the function, its
                          \* track and whether it still awaits
  lastOpinion,            \* history: of every track key, what the user
                          \* did to it last
  oop                     \* "idle" | the handler or continuation that ran last

opinionVars == <<likeSet, likedPersistentSetRef, likedPersistent, currentUser,
                 storedLiked, asyncCalls, lastOpinion, oop>>

IdleOpinion ==
  /\ likeSet = {}
  /\ likedPersistentSetRef = {}
  /\ likedPersistent = <<>>
  /\ currentUser = <<>>
  /\ storedLiked = <<>>
  /\ asyncCalls = <<>>
  /\ lastOpinion = <<>>
  /\ oop = "idle"

\* ---- the feed screen of part_000: the list, the active card, the Go lock
\* ---- (V1.14), the overlays and the preview that plays
VARIABLES
  tracksRef,                  \* tracksRef.current, the state tracks
  activeIndex,                \* the state activeIndex
  goLockIdRef,                \* goLockIdRef.current, Null while no lock
  goLockIndexRef,             \* goLockIndexRef.current
  overlay,                    \* which of showProfile, showGenresQuick,
                              \* showLikedSession, showLikedPersistent is
                              \* true: "none" | "profile" | "genres" |
                              \* "likedSession" | "likedPersistent"
  suppressNextAutoplayRef,    \* suppressNextAutoplayRef.current
  needRestoreScrollRef,       \* needRestoreScrollRef.current
  lastIndexBeforeOverlayRef,  \* lastIndexBeforeOverlayRef.current
  playing,                    \* the key of the track whose preview sound
                              \* plays, Null while none does
  refreshCalls,               \* the calls of refreshDiscoveryFeed: where
                              \* each one stands
  scheduled,                  \* the setTimeout(() => refreshDiscoveryFeed(), 0)
                              \* timers that have not fired yet
  jumps,                      \* the calls of openLikedInFeed: where each one
                              \* stands, its id and its finalIdx
  scr                         \* "loaded" | the handler or continuation that
                              \* ran last

screenVars == <<tracksRef, activeIndex, goLockIdRef, goLockIndexRef, overlay,
                suppressNextAutoplayRef, needRestoreScrollRef,
                lastIndexBeforeOverlayRef, playing, refreshCalls, scheduled,
                jumps, scr>>

IdleScreen ==
  /\ tracksRef = <<>>
  /\ activeIndex = 0
  /\ goLockIdRef = <<"null", <<>>>>
  /\ goLockIndexRef = 0 - 1
  /\ overlay = "none"
  /\ suppressNextAutoplayRef = FALSE
  /\ needRestoreScrollRef = FALSE
  /\ lastIndexBeforeOverlayRef = 0
  /\ playing = <<"null", <<>>>>
  /\ refreshCalls = <<>>
  /\ scheduled = 0
  /\ jumps = <<>>
  /\ scr = "loaded"

\* the accounts of the profile screen (part_000, V1.14): the users db of
\* AsyncStorage, what was typed at the last Log In that set the current
\* user, and the last step
VARIABLES usersDb, attempt, aop

authVars == <<usersDb, attempt, aop>>

IdleAuth ==
  /\ usersDb = <<>>
  /\ attempt = <<>>
  /\ aop = "idle"

\* one call of shuffleInPlace (part_000): its argument as it was, the seed,
\* the array under the loop, the generator's state t, the loop index i,
\* the last swap index j, and where the call is
VARIABLES shuffleInput, shuffleSeed, shuffleArr, shuffleT, shuffleI, shuffleJ,
          shuffleOp

shufVars == <<shuffleInput, shuffleSeed, shuffleArr, shuffleT, shuffleI,
              shuffleJ, shuffleOp>>

IdleShuf ==
  /\ shuffleInput = <<>>
  /\ shuffleSeed = <<0, 0>>
  /\ shuffleArr = <<>>
  /\ shuffleT = 1
  /\ shuffleI = 0 - 1
  /\ shuffleJ = 0 - 1
  /\ shuffleOp = "idle"

\* the parts before these, which their actions leave alone
earlierVars == <<divVars, filterVars, seedVars, fetchVars, dedupeVars,
                 loadVars>>

moreVars == <<searchVars, callerVars, genreVars, logVars, playVars, reactVars, opinionVars, screenVars, authVars, shufVars>>

IdleMore == IdleSearch /\ IdleCaller /\ IdleGenres /\ IdleLog /\ IdlePlay /\ IdleReact /\ IdleOpinion /\ IdleScreen /\ IdleAuth /\ IdleShuf

\* every variable but those of searchVars
butSearch == <<earlierVars, callerVars, genreVars, logVars, playVars, reactVars, opinionVars, screenVars, authVars, shufVars>>

\* every variable but those of callerVars
butCaller == <<earlierVars, searchVars, genreVars, logVars, playVars, reactVars, opinionVars, screenVars, authVars, shufVars>>

\* every variable but those of genreVars
butGenre == <<earlierVars, searchVars, callerVars, logVars, playVars, reactVars, opinionVars, screenVars, authVars, shufVars>>

\* every variable but those of logVars
butLog == <<earlierVars, searchVars, callerVars, genreVars, playVars, reactVars, opinionVars, screenVars, authVars, shufVars>>

\* every variable but those of playVars
butPlay == <<earlierVars, searchVars, callerVars, genreVars, logVars, reactVars, opinionVars, screenVars, authVars, shufVars>>

\* every variable but those of reactVars
butReact == <<earlierVars, searchVars, callerVars, genreVars, logVars, playVars, opinionVars, screenVars, authVars, shufVars>>

\* the groups beside reactVars that its actions leave alone
besideReact == <<searchVars, callerVars, genreVars, logVars, playVars, opinionVars, screenVars, authVars, shufVars>>

IdleBesideReact ==
  /\ IdleSearch
  /\ IdleCaller
  /\ IdleGenres
  /\ IdleLog
  /\ IdlePlay
  /\ IdleOpinion
  /\ IdleScreen
  /\ IdleAuth
  /\ IdleShuf

\* every variable but those of opinionVars
butOpinion == <<earlierVars, searchVars, callerVars, genreVars, logVars, playVars, reactVars, screenVars, authVars, shufVars>>

\* the groups beside opinionVars that its actions leave alone
besideOpinion == <<searchVars, callerVars, genreVars, logVars, playVars, reactVars, screenVars, authVars, shufVars>>

IdleBesideOpinion ==
  /\ IdleSearch
  /\ IdleCaller
  /\ IdleGenres
  /\ IdleLog
  /\ IdlePlay
  /\ IdleReact
  /\ IdleScreen
  /\ IdleAuth
  /\ IdleShuf

\* every variable but those of screenVars
butScreen == <<earlierVars, searchVars, callerVars, genreVars, logVars, playVars, reactVars, opinionVars, authVars, shufVars>>

\* the groups beside screenVars that its actions leave alone
besideScreen == <<searchVars, callerVars, genreVars, logVars, playVars, reactVars, opinionVars, authVars, shufVars>>

IdleBesideScreen ==
  /\ IdleSearch
  /\ IdleCaller
  /\ IdleGenres
  /\ IdleLog
  /\ IdlePlay
  /\ IdleReact
  /\ IdleOpinion
  /\ IdleAuth
  /\ IdleShuf

\* every variable but those of authVars
butAuth == <<earlierVars, searchVars, callerVars, genreVars, logVars, playVars, reactVars, opinionVars, screenVars, shufVars>>

\* the groups beside authVars that its actions leave alone
besideAuth == <<searchVars, callerVars, genreVars, logVars, playVars, reactVars, opinionVars, screenVars, shufVars>>

IdleBesideAuth ==
  /\ IdleSearch
  /\ IdleCaller
  /\ IdleGenres
  /\ IdleLog
  /\ IdlePlay
  /\ IdleReact
  /\ IdleOpinion
  /\ IdleScreen
  /\ IdleShuf

\* every variable but those of shufVars
butShuf == <<earlierVars, searchVars, callerVars, genreVars, logVars, playVars, reactVars, opinionVars, screenVars, authVars>>

\* the groups beside opinionVars and screenVars
besideOpinionAndScreen == <<searchVars, callerVars, genreVars, logVars, playVars, reactVars, authVars, shufVars>>

\* the groups beside opinionVars, screenVars and authVars
besideOpinionScreenAndAuth == <<searchVars, callerVars, genreVars, logVars, playVars, reactVars, shufVars>>

restVars == <<dedupeVars, loadVars, moreVars>>

\* the state of these parts in a run that does not use them
IdleRest ==
  /\ dlist = <<>>
  /\ dout = <<>>
  /\ dtwice = <<>>
  /\ dop = "build"
  /\ appTracks = <<>>
  /\ loads = <<>>
  /\ likesRef = {}
  /\ dislikesRef = {}
  /\ IdleMore

\* the variables, and their values, of the parts added after the feed
laterVars == <<seedVars, fetchVars, restVars>>

IdleLater == IdleSeeds /\ IdleFetch /\ IdleRest

vars == <<divVars, filterVars, laterVars>>

\* ------------------------------------------------------------ JS strings
Upper == <<"A", "B", "C", "D", "E", "F", "G">>
Lower == <<"a", "b", "c", "d", "e", "f", "g">>

\* String.prototype.toLowerCase on one character
LowerChar(c) ==
  CASE c = "A" -> "a" [] c = "B" -> "b" [] c = "C" -> "c" [] c = "D" -> "d"
    [] c = "E" -> "e" [] c = "F" -> "f" [] c = "G" -> "g" [] c = "H" -> "h"
    [] c = "I" -> "i" [] c = "J" -> "j" [] c = "K" -> "k" [] c = "L" -> "l"
    [] c = "M" -> "m" [] c = "N" -> "n" [] c = "O" -> "o" [] c = "P" -> "p"
    [] c = "Q" -> "q" [] c = "R" -> "r" [] c = "S" -> "s" [] c = "T" -> "t"
    [] c = "U" -> "u" [] c = "V" -> "v" [] c = "W" -> "w" [] c = "X" -> "x"
    [] c = "Y" -> "y" [] c = "Z" -> "z"
    [] OTHER -> c

\* String.prototype.toLowerCase
ToLowerCase(s) == [i \in 1..Len(s) |-> LowerChar(s[i])]

\* String.prototype.trim: drop leading and trailing white space
RECURSIVE TrimLeft(_)
TrimLeft(s) ==
  IF s # <<>> /\ Head(s) = " " THEN TrimLeft(Tail(s)) ELSE s

RECURSIVE TrimRight(_)
TrimRight(s) ==
  IF s # <<>> /\ s[Len(s)] = " " THEN TrimRight(SubSeq(s, 1, Len(s) - 1)) ELSE s

Trim(s) == TrimRight(TrimLeft(s))

\* Array.prototype.slice(-n) for n >= 0: the last n elements, and the whole
\* array when n = 0 (slice(-0) is slice(0))
SliceLast(seq, n) ==
  IF n = 0 \/ n >= Len(seq) THEN seq
  ELSE SubSeq(seq, Len(seq) - n + 1, Len(seq))

\* Array.prototype.includes / some(===) on a sequence
Includes(seq, x) == \E j \in 1..Len(seq) : seq[j] = x

\* Map.get(a) || 0  and  counts[a] || 0
GetCount(counts, a) == IF a \in DOMAIN counts THEN counts[a] ELSE 0

\* Map.set(a, n)  and  counts[a] = n
SetCount(counts, a, n) ==
  [k \in (DOMAIN counts) \cup {a} |-> IF k = a THEN n ELSE counts[k]]

EmptyMap == [k \in {} |-> 0]

\* --------------------------------------------------- App.js: diversify
\* (it.artist || '').trim().toLowerCase()
ArtistKey(it) == ToLowerCase(Trim(it.artist))

\* mutant of FirstPass: the tooSoon test is missing
RECURSIVE FirstPassNoCooldown(_, _, _, _, _, _)
FirstPassNoCooldown(its, i, st, maxPerArtist, cooldown, tgt) ==
  IF i > Len(its) THEN st
  ELSE
    LET a == ArtistKey(its[i])
        c == GetCount(st.countByArtist, a)
    IN  IF c >= maxPerArtist THEN
          FirstPassNoCooldown(its, i + 1, st, maxPerArtist, cooldown, tgt)
        ELSE
          LET st2 == [result |-> Append(st.result, its[i]),
                      countByArtist |-> SetCount(st.countByArtist, a, c + 1)]
          IN  IF Len(st2.result) >= tgt THEN st2
              ELSE FirstPassNoCooldown(its, i + 1, st2, maxPerArtist, cooldown, tgt)

\* first loop of diversify (App.js 63-72); st = [result, countByArtist]
RECURSIVE FirstPass(_, _, _, _, _, _)
FirstPass(its, i, st, maxPerArtist, cooldown, tgt) ==
  IF i > Len(its) THEN st
  ELSE
    LET it == its[i]
        a  == ArtistKey(it)
        c  == GetCount(st.countByArtist, a)
        tooSoon == \E j \in 1..Len(SliceLast(st.result, cooldown)) :
                      ArtistKey(SliceLast(st.result, cooldown)[j]) = a
    IN  IF c >= maxPerArtist THEN
          FirstPass(its, i + 1, st, maxPerArtist, cooldown, tgt)
        ELSE IF tooSoon THEN
          FirstPass(its, i + 1, st, maxPerArtist, cooldown, tgt)
        ELSE
          LET st2 == [result |-> Append(st.result, it),
                      countByArtist |-> SetCount(st.countByArtist, a, c + 1)]
          IN  IF Len(st2.result) >= tgt THEN st2
              ELSE FirstPass(its, i + 1, st2, maxPerArtist, cooldown, tgt)

\* mutant of FillPass: the fill pass still applies the cooldown test
RECURSIVE FillPassStillStrict(_, _, _, _, _)
FillPassStillStrict(its, i, st, maxPerArtist, tgt) ==
  IF i > Len(its) THEN st
  ELSE
    LET a == ArtistKey(its[i])
        c == GetCount(st.countByArtist, a)
        tooSoon == \E j \in 1..Len(SliceLast(st.result, BIAS_COOLDOWN)) :
                      ArtistKey(SliceLast(st.result, BIAS_COOLDOWN)[j]) = a
    IN  IF \/ \E j \in 1..Len(st.result) : st.result[j].ref = its[i].ref
           \/ c >= maxPerArtist
           \/ tooSoon
        THEN FillPassStillStrict(its, i + 1, st, maxPerArtist, tgt)
        ELSE
          LET st2 == [result |-> Append(st.result, its[i]),
                      countByArtist |-> SetCount(st.countByArtist, a, c + 1)]
          IN  IF Len(st2.result) >= tgt THEN st2
              ELSE FillPassStillStrict(its, i + 1, st2, maxPerArtist, tgt)

\* second loop of diversify (App.js 74-82)
RECURSIVE FillPass(_, _, _, _, _)
FillPass(its, i, st, maxPerArtist, tgt) ==
  IF i > Len(its) THEN st
  ELSE
    LET it == its[i]
        a  == ArtistKey(it)
        c  == GetCount(st.countByArtist, a)
    IN  IF \E j \in 1..Len(st.result) : st.result[j].ref = it.ref THEN
          FillPass(its, i + 1, st, maxPerArtist, tgt)
        ELSE IF c >= maxPerArtist THEN
          FillPass(its, i + 1, st, maxPerArtist, tgt)
        ELSE
          LET st2 == [result |-> Append(st.result, it),
                      countByArtist |-> SetCount(st.countByArtist, a, c + 1)]
          IN  IF Len(st2.result) >= tgt THEN st2
              ELSE FillPass(its, i + 1, st2, maxPerArtist, tgt)

\* function diversify(items, { maxPerArtist, cooldown, target })
diversify(its, maxPerArtist, cooldown, tgt) ==
  LET st0 == [result |-> <<>>, countByArtist |-> EmptyMap]
      st1 == FirstPass(its, 1, st0, maxPerArtist, cooldown, tgt)
  IN  IF Len(st1.result) < tgt
      THEN FillPass(its, 1, st1, maxPerArtist, tgt).result
      ELSE st1.result

\* ------------------------------------------- App.js: biasAndDiversify
\* mutant of Score: the dislikedArtists penalty is missing
ScoreIgnoresDisliked(it, liked, disliked) ==
  IF ToLowerCase(Trim(it.artist)) \in liked THEN 2 ELSE 0

\* the score of one item (App.js 89-93)
Score(it, liked, disliked) ==
  LET a  == ToLowerCase(Trim(it.artist))
      s1 == IF a \in liked THEN 2 ELSE 0
  IN  IF a \in disliked THEN s1 - 2 ELSE s1

\* items.map(it => ({ it, score }))
Scored(its, liked, disliked) ==
  [i \in 1..Len(its) |-> [it |-> its[i], score |-> Score(its[i], liked, disliked)]]

\* (InsertByScoreAscending below is the mutant of InsertByScore with the
\* comparator reversed: (a, b) => a.score - b.score)
\* Array.prototype.sort with the comparator (a, b) => b.score - a.score;
\* the sort is stable (ECMAScript 2019), written here as an insertion sort
\* that places an element after every element the comparator does not put
\* behind it
RECURSIVE InsertByScoreAscending(_, _)
InsertByScoreAscending(sorted, x) ==
  IF sorted = <<>> THEN <<x>>
  ELSE IF Head(sorted).score - x.score > 0
       THEN <<x>> \o sorted
       ELSE <<Head(sorted)>> \o InsertByScoreAscending(Tail(sorted), x)

RECURSIVE InsertByScore(_, _)
InsertByScore(sorted, x) ==
  IF sorted = <<>> THEN <<x>>
  ELSE IF x.score - Head(sorted).score > 0
       THEN <<x>> \o sorted
       ELSE <<Head(sorted)>> \o InsertByScore(Tail(sorted), x)

RECURSIVE SortByScore(_, _)
SortByScore(scored, n) ==
  IF n = 0 THEN <<>>
  ELSE InsertByScore(SortByScore(scored, n - 1), scored[n])

\* scored.sort(...); scored.map(s => s.it)
HandedToDiversify(its, liked, disliked) ==
  LET scored == Scored(its, liked, disliked)
      sorted == SortByScore(scored, Len(scored))
  IN  [i \in 1..Len(sorted) |-> sorted[i].it]

\* the body of biasAndDiversify: the sequence handed to diversify and what
\* diversify returns for it
BiasSteps(its, liked, disliked, tgt) ==
  LET h == HandedToDiversify(its, liked, disliked)
  IN  [handed |-> h,
       result |-> diversify(h, BIAS_MAX_PER_ARTIST, BIAS_COOLDOWN, tgt)]

\* function biasAndDiversify(items, { likedArtists, dislikedArtists, target })
biasAndDiversify(its, liked, disliked, tgt) ==
  BiasSteps(its, liked, disliked, tgt).result

\* ------------------------------------------- part_000: diversify
\* one run of the loop of diversify (part_000 90-95 and 1463-1468);
\* st = [out, recent, counts]
DiversifyStep(st, t, cap, cooldown) ==
  LET a == Trim(t.artist)
  IN  IF GetCount(st.counts, a) >= cap THEN st
      ELSE IF Includes(SliceLast(st.recent, cooldown), a) THEN st
      ELSE [out    |-> Append(st.out, t),
            counts |-> SetCount(st.counts, a, GetCount(st.counts, a) + 1),
            recent |-> Append(st.recent, a)]

\* for (const t of tracks) { ... }, from the i-th track on
\* (the turn is bound as a value before the loop goes on with it)
RECURSIVE DiversifyLoop(_, _, _, _, _)
DiversifyLoop(trks, i, st, cap, cooldown) ==
  IF i > Len(trks) THEN st
  ELSE CHOOSE res \in {DiversifyLoop(trks, i + 1, st2, cap, cooldown) :
                         st2 \in {DiversifyStep(st, trks[i], cap, cooldown)}} : TRUE

\* V1.8: function diversify(tracks)
diversifyV18(trks) ==
  CHOOSE res \in {DiversifyLoop(l, 1, [out |-> <<>>, recent |-> <<>>, counts |-> EmptyMap],
                                 PER_ARTIST_CAP, ARTIST_COOLDOWN).out :
                    l \in {trks}} : TRUE

\* V1.14: function diversify(tracks)
diversifyV114(trks) ==
  CHOOSE res \in {DiversifyLoop(l, 1, [out |-> <<>>, recent |-> <<>>, counts |-> EmptyMap],
                                 PER_ARTIST_CAP, ARTIST_COOLDOWN).out :
                    l \in {trks}} : TRUE

\* --------------------------------------------- part_000: program constants
\* const GENRE_FALLBACK = 21; // Rock
GENRE_FALLBACK == 21
\* V1.8: const LIKE_COOLDOWN_DAYS = 30;
LIKE_COOLDOWN_DAYS == 30
\* V1.14: const LIKE_COOLDOWN_DAYS = 60; const PLAY_COOLDOWN_DAYS = 60;
LIKE_COOLDOWN_DAYS_V114 == 60
PLAY_COOLDOWN_DAYS == 60

\* KARAOKE_PATTERNS, each /.../i.  A regular expression is kept as the text it
\* must find: the second one, /instrumental(?: version)?/i, ends in an
\* optional group, so test() finds it exactly where it finds "instrumental".
KARAOKE_PATTERNS ==
  << <<"k", "a", "r", "a", "o", "k", "e">>,
     <<"i", "n", "s", "t", "r", "u", "m", "e", "n", "t", "a", "l">>,
     <<"t", "r", "i", "b", "u", "t", "e">>,
     <<"b", "a", "c", "k", "i", "n", "g", " ", "t", "r", "a", "c", "k">>,
     <<"a", "s", " ", "m", "a", "d", "e", " ", "f", "a", "m", "o", "u", "s", " ", "b", "y">>,
     <<"o", "r", "i", "g", "i", "n", "a", "l", "l", "y", " ", "p", "e", "r", "f", "o", "r", "m", "e", "d">> >>

\* DEFAULT_GENRES of V1.8 and of V1.14 (which adds Metal)
DEFAULT_GENRES ==
  << [id |-> 14, name |-> <<"P", "o", "p">>],
     [id |-> 18, name |-> <<"H", "i", "p", "-", "H", "o", "p", "/", "R", "a", "p">>],
     [id |-> 21, name |-> <<"R", "o", "c", "k">>],
     [id |-> 20, name |-> <<"A", "l", "t", "e", "r", "n", "a", "t", "i", "v", "e">>],
     [id |-> 6, name |-> <<"C", "o", "u", "n", "t", "r", "y">>],
     [id |-> 15, name |-> <<"R", "&", "B", "/", "S", "o", "u", "l">>],
     [id |-> 17, name |-> <<"D", "a", "n", "c", "e">>],
     [id |-> 7, name |-> <<"E", "l", "e", "c", "t", "r", "o", "n", "i", "c">>],
     [id |-> 24, name |-> <<"L", "a", "t", "i", "n">>],
     [id |-> 11, name |-> <<"J", "a", "z", "z">>],
     [id |-> 2, name |-> <<"B", "l", "u", "e", "s">>],
     [id |-> 5, name |-> <<"C", "l", "a", "s", "s", "i", "c", "a", "l">>] >>

DEFAULT_GENRES_V114 ==
  << [id |-> 14, name |-> <<"P", "o", "p">>],
     [id |-> 18, name |-> <<"H", "i", "p", "-", "H", "o", "p", "/", "R", "a", "p">>],
     [id |-> 21, name |-> <<"R", "o", "c", "k">>],
     [id |-> 1153, name |-> <<"M", "e", "t", "a", "l">>],
     [id |-> 20, name |-> <<"A", "l", "t", "e", "r", "n", "a", "t", "i", "v", "e">>],
     [id |-> 6, name |-> <<"C", "o", "u", "n", "t", "r", "y">>],
     [id |-> 15, name |-> <<"R", "&", "B", "/", "S", "o", "u", "l">>],
     [id |-> 17, name |-> <<"D", "a", "n", "c", "e">>],
     [id |-> 7, name |-> <<"E", "l", "e", "c", "t", "r", "o", "n", "i", "c">>],
     [id |-> 24, name |-> <<"L", "a", "t", "i", "n">>],
     [id |-> 11, name |-> <<"J", "a", "z", "z">>],
     [id |-> 2, name |-> <<"B", "l", "u", "e", "s">>],
     [id |-> 5, name |-> <<"C", "l", "a", "s", "s", "i", "c", "a", "l">>] >>

\* ------------------------------------------------- part_000: JS values
\* A JS value that serves as a track id is a pair of its type and its
\* payload: a number carries an integer, a string its characters.
Num(n) == <<"number", n>>
Str(s) == <<"string", s>>

Digits == <<"0", "1", "2", "3", "4", "5", "6", "7", "8", "9">>

\* Number.prototype.toString for a non-negative integer
RECURSIVE NumberToString(_)
NumberToString(n) ==
  IF n < 10 THEN <<Digits[n + 1]>>
  ELSE Append(NumberToString(n \div 10), Digits[(n % 10) + 1])

\* String(v)
String(v) == IF v[1] = "number" THEN Str(NumberToString(v[2])) ELSE v

\* ToPropertyKey(v): the property name obj[v] reads and writes
PropKey(v) == IF v[1] = "number" THEN NumberToString(v[2]) ELSE v[2]

\* truthiness of a number or string
Truthy(v) == IF v[1] = "number" THEN v[2] # 0 ELSE v[2] # <<>>

\* obj[k] of an object of timestamps; 0 stands for undefined (both falsy)
ObjGet(obj, k) == IF k \in DOMAIN obj THEN obj[k] ELSE 0

\* { ...obj, [k]: v }
ObjSet(obj, k, v) ==
  [x \in (DOMAIN obj) \cup {k} |-> IF x = k THEN v ELSE obj[x]]

EmptyObj == [k \in {} |-> 0]

\* String.prototype.includes
StrIncludes(s, sub) ==
  \E i \in 1..(Len(s) - Len(sub) + 1) : SubSeq(s, i, i + Len(sub) - 1) = sub

Min(a, b) == IF a <= b THEN a ELSE b
Max(a, b) == IF a >= b THEN a ELSE b

\* ------------------------------------------- part_000: the filter predicates
\* trackKey: t?.id || `${t?.title}|${t?.artist}|${t?.album}`
trackKey(t) ==
  IF Truthy(t.id) THEN t.id
  ELSE Str(t.title \o <<"|">> \o t.artist \o <<"|">> \o t.album)

\* isKaraoke: some pattern is found, case-insensitively, in
\* `${t.title || ""} ${t.album || ""} ${t.artist || ""}`
isKaraoke(t) ==
  LET blob == t.title \o <<" ">> \o t.album \o <<" ">> \o t.artist
  IN  \E p \in 1..Len(KARAOKE_PATTERNS) :
        StrIncludes(ToLowerCase(blob), KARAOKE_PATTERNS[p])

\* tooRecentlyLiked: last && last > cutoffRef.current
tooRecentlyLiked(t, P) ==
  LET last == ObjGet(P.likedDates, PropKey(trackKey(t)))
  IN  last # 0 /\ last > P.cutoff

\* tooRecentlyPlayed (V1.14)
tooRecentlyPlayed(t, P) ==
  LET last == ObjGet(P.playedDates, PropKey(trackKey(t)))
  IN  last # 0 /\ last > P.cutoff

\* genreNameByIdRef.current.get(String(id)) || "": the map is built from
\* DEFAULT_GENRES with String(g.id) as key
GenreNameById(genres, id) ==
  LET key == String(Num(id))
      hit == {g \in 1..Len(genres) : String(Num(genres[g].id)) = key}
  IN  IF hit = {} THEN <<>> ELSE genres[CHOOSE g \in hit : TRUE].name

\* matchesSelectedGenres
matchesSelectedGenres(t, ids, genres) ==
  LET all   == [i \in 1..Len(ids) |-> ToLowerCase(GenreNameById(genres, ids[i]))]
      names == SelectSeq(all, LAMBDA n : n # <<>>)
      gn    == ToLowerCase(t.genreName)
  IN  IF ids = <<>> THEN TRUE
      ELSE IF names = <<>> \/ gn = <<>> THEN TRUE
      ELSE \E n \in 1..Len(names) : StrIncludes(gn, names[n])

\* ------------------------------------------ part_000: applyGlobalFilters
\* P is what the function reads from the refs: [disliked, likedDates,
\* playedDates, cutoff].  The stages are the statements of the function in
\* their order; V1.8 and V1.14 share the first three.

\* let list = arr.filter((t) => !isKaraoke(t));
KaraokeStage(arr) == SelectSeq(arr, LAMBDA t : ~isKaraoke(t))

\* mutant of DislikedStage: the floor of 5 tracks is missing
DislikedStageNoFloor(list, P) ==
  SelectSeq(list, LAMBDA t : trackKey(t) \notin P.disliked)

\* withoutDisliked = list.filter(!dislikedPersistentRef.current.has(trackKey(t)));
\* list = withoutDisliked.length >= 5 ? withoutDisliked : list;
\* (Set.prototype.has compares by SameValueZero: the number 7 is not "7")
DislikedStage(list, P) ==
  LET withoutDisliked == SelectSeq(list, LAMBDA t : trackKey(t) \notin P.disliked)
  IN  IF Len(withoutDisliked) >= 5 THEN withoutDisliked ELSE list

\* mutant of LikedCooldownStage: the threshold is 60% of the stage's input
LikedCooldownStageRelative(list, P) ==
  LET cooled == SelectSeq(list, LAMBDA t : ~tooRecentlyLiked(t, P))
  IN  IF 10 * Len(cooled) < 6 * Len(list) THEN list ELSE cooled

\* let cooled = list.filter((t) => !tooRecentlyLiked(t));
\* if (cooled.length < PAGE * 0.6) cooled = list;
\* (PAGE * 0.6 is 12 exactly; the comparison is done in tenths)
LikedCooldownStage(list, P) ==
  LET cooled == SelectSeq(list, LAMBDA t : ~tooRecentlyLiked(t, P))
  IN  IF 10 * Len(cooled) < PAGE * 6 THEN list ELSE cooled

\* V1.14: let notPlayed = cooled.filter((t) => !tooRecentlyPlayed(t));
\*        if (notPlayed.length >= Math.min(10, PAGE / 2)) cooled = notPlayed;
PlayedCooldownStage(cooled, P) ==
  LET notPlayed == SelectSeq(cooled, LAMBDA t : ~tooRecentlyPlayed(t, P))
  IN  IF Len(notPlayed) >= Min(10, PAGE \div 2) THEN notPlayed ELSE cooled

\* mutant of GenreStage: the floor of min(10, PAGE / 2) tracks is missing
GenreStageNoFloor(cooled, ids, genres) ==
  LET tightened == SelectSeq(cooled, LAMBDA t : matchesSelectedGenres(t, ids, genres))
  IN  IF ids # <<>> THEN tightened ELSE cooled

\* if (idsForTighten && idsForTighten.length) {
\*   tightened = cooled.filter((t) => matchesSelectedGenres(t, idsForTighten));
\*   if (tightened.length >= Math.min(10, PAGE / 2)) cooled = tightened; }
GenreStage(cooled, ids, genres) ==
  LET tightened == SelectSeq(cooled, LAMBDA t : matchesSelectedGenres(t, ids, genres))
  IN  IF ids # <<>> /\ Len(tightened) >= Min(10, PAGE \div 2)
      THEN tightened ELSE cooled

\* applyGlobalFilters of V1.8
applyGlobalFiltersV18(arr, ids, P) ==
  GenreStage(LikedCooldownStage(DislikedStage(KaraokeStage(arr), P), P),
             ids, DEFAULT_GENRES)

\* applyGlobalFilters of V1.14
applyGlobalFiltersV114(arr, ids, P) ==
  GenreStage(
    PlayedCooldownStage(
      LikedCooldownStage(DislikedStage(KaraokeStage(arr), P), P), P),
    ids, DEFAULT_GENRES_V114)

\* applyGlobalFilters of the revision that runs
applyGlobalFilters(r, arr, ids, P) ==
  IF r = "V1.8" THEN applyGlobalFiltersV18(arr, ids, P)
  ELSE applyGlobalFiltersV114(arr, ids, P)

\* what applyGlobalFilters reads from the refs in the current state
Prefs ==
  [disliked    |-> dislikedPersistentRef,
   likedDates  |-> likedDatesRef,
   playedDates |-> playedDatesRef,
   cutoff      |-> cutoffRef]

\* the days of the cooldown window:
\* V1.8  Date.now() - LIKE_COOLDOWN_DAYS * 24*60*60*1000
\* V1.14 Date.now() - Math.max(LIKE_COOLDOWN_DAYS, PLAY_COOLDOWN_DAYS) * ...
CooldownDays(r) ==
  IF r = "V1.8" THEN LIKE_COOLDOWN_DAYS
  ELSE Max(LIKE_COOLDOWN_DAYS_V114, PLAY_COOLDOWN_DAYS)

Revisions == {"V1.8", "V1.14"}

\* the day the clock shows first: late enough for every cutoff to be positive
FirstDay == Max(LIKE_COOLDOWN_DAYS, Max(LIKE_COOLDOWN_DAYS_V114, PLAY_COOLDOWN_DAYS)) + 1

\* the feed state of a run that never touches the feed
IdleFeedOf(r) ==
  /\ rev = r
  /\ now = FirstDay
  /\ cutoffRef = FirstDay - CooldownDays(r)
  /\ dislikedPersistentRef = {}
  /\ dislikeSet = {}
  /\ likedDatesRef = EmptyObj
  /\ playedDatesRef = EmptyObj
  /\ storedDisliked = {}
  /\ storedLikedDates = EmptyObj
  /\ storedPlayedDates = EmptyObj
  /\ fetched = <<>>
  /\ idsForTighten = <<>>
  /\ tracks = <<>>
  /\ launches = 0
  /\ userDisliked = {}
  /\ fop = "off"

IdleFeed == IdleFeedOf("V1.8")

\* ------------------------------------------------ candidate lists (inputs)
\* the artist of letter k as the feed usually carries it, and a variant of
\* it that differs in case and in trailing white space
Canon(k) == <<Upper[k]>>
Variant(k) == <<Lower[k], " ">>

\* the letters whose artist already occurs in the list
UsedLetters(its) ==
  {k \in 1..NumArtists : \E i \in 1..Len(its) : ArtistKey(its[i]) = <<Lower[k]>>}

\* the track objects of the list
Refs(its) == {its[i].ref : i \in 1..Len(its)}

NumIrregular(its) ==
  Cardinality({i \in 1..Len(its) : \A k \in 1..NumArtists : its[i].artist # Canon(k)})
  + (Len(its) - Cardinality(Refs(its)))

\* the candidate list grows by a new track object; artists are named in the
\* order of their first occurrence (A, then B, ...)
AddFresh(maxLen, maxIrr) ==
  /\ op = "build"
  /\ Len(items) < maxLen
  /\ \E k \in 1..NumArtists, v \in BOOLEAN :
       LET new == Append(items, [ref    |-> Cardinality(Refs(items)) + 1,
                                 artist |-> IF v THEN Variant(k) ELSE Canon(k)])
       IN  /\ k <= Cardinality(UsedLetters(items)) + 1
           /\ NumIrregular(new) <= maxIrr
           /\ items' = new
  /\ UNCHANGED <<target, likedArtists, dislikedArtists, handed, result,
                 outV18, outV114, op>>
  /\ UNCHANGED <<filterVars, laterVars>>

\* the candidate list grows by a track object it already holds
AddDup(maxLen, maxIrr) ==
  /\ op = "build"
  /\ Len(items) < maxLen
  /\ \E j \in 1..Len(items) :
       /\ NumIrregular(Append(items, items[j])) <= maxIrr
       /\ items' = Append(items, items[j])
  /\ UNCHANGED <<target, likedArtists, dislikedArtists, handed, result,
                 outV18, outV114, op>>
  /\ UNCHANGED <<filterVars, laterVars>>

\* the targets a call may pass
Targets == 0..(MaxLen + 1)

\* one call of diversify (App.js) and of diversify (part_000) on the list
CallDiversify ==
  /\ op = "build"
  /\ \E tgt \in Targets :
       /\ target' = tgt
       /\ result' = diversify(items, BIAS_MAX_PER_ARTIST, BIAS_COOLDOWN, tgt)
  /\ handed' = items
  /\ outV18' = diversifyV18(items)
  /\ outV114' = diversifyV114(items)
  /\ op' = "diversify"
  /\ UNCHANGED <<items, likedArtists, dislikedArtists>>
  /\ UNCHANGED <<filterVars, laterVars>>

\* the normalized artists of the list: what a likedArtists set can hold of it
NormArtists(its) == {ArtistKey(its[i]) : i \in 1..Len(its)}

PrefSets(its) == {S \in SUBSET NormArtists(its) : Cardinality(S) <= MaxPrefs}

\* the target a call of biasAndDiversify passes: a page one shorter than the
\* longest candidate list
BiasTargets == {MaxLenBias - 1}

\* one call of biasAndDiversify (App.js) on the list
CallBiasAndDiversify ==
  /\ op = "build"
  /\ \E L \in PrefSets(items), D \in PrefSets(items), tgt \in BiasTargets :
       /\ Cardinality(L) + Cardinality(D) <= MaxPrefs
       /\ target' = tgt
       /\ likedArtists' = L
       /\ dislikedArtists' = D
       /\ handed' = BiasSteps(items, L, D, tgt).handed
       /\ result' = biasAndDiversify(items, L, D, tgt)
  /\ op' = "biasAndDiversify"
  /\ UNCHANGED <<items, outV18, outV114>>
  /\ UNCHANGED <<filterVars, laterVars>>

IdleDiv ==
  /\ items = <<>>
  /\ target = 0
  /\ likedArtists = {}
  /\ dislikedArtists = {}
  /\ handed = <<>>
  /\ result = <<>>
  /\ outV18 = <<>>
  /\ outV114 = <<>>
  /\ op = "build"

InitDiv == IdleDiv /\ IdleFeed /\ IdleLater

\* one call of diversify (App.js) with cooldown: 0 and a target of 1 or more
CallDiversifyNoCooldown ==
  /\ op = "build"
  /\ \E tgt \in Targets \ {0} :
       /\ target' = tgt
       /\ result' = diversify(items, BIAS_MAX_PER_ARTIST, 0, tgt)
  /\ handed' = items
  /\ op' = "noCooldown"
  /\ UNCHANGED <<items, likedArtists, dislikedArtists, outV18, outV114>>
  /\ UNCHANGED <<filterVars, laterVars>>

NextNoCooldown ==
  \/ AddFresh(MaxLen, MaxIrregular)
  \/ AddDup(MaxLen, MaxIrregular)
  \/ CallDiversifyNoCooldown

\* diversify (App.js) called with cooldown: 0 on every list within the bounds
SpecNoCooldown == InitDiv /\ [][NextNoCooldown]_vars

NextDiversify ==
  \/ AddFresh(MaxLen, MaxIrregular)
  \/ AddDup(MaxLen, MaxIrregular)
  \/ CallDiversify

NextBias ==
  \/ AddFresh(MaxLenBias, 0)
  \/ CallBiasAndDiversify

\* calls of diversify on every candidate list within the bounds
SpecDiversify == InitDiv /\ [][NextDiversify]_vars

\* calls of biasAndDiversify on every candidate list within the bounds
SpecBias == InitDiv /\ [][NextBias]_vars

\* ------------------------------------------------- fetched lists (inputs)
TitleHit     == <<"H", "i", "t">>
TitleKaraoke == <<"K", "a", "r", "a", "o", "k", "e", " ", "H", "i", "t">>
AlbumLP      == <<"L", "P">>
GenreRock    == <<"R", "o", "c", "k">>
GenrePop     == <<"P", "o", "p">>
GenreHardRock == <<"H", "A", "R", "D", " ", "R", "O", "C", "K">>

\* the kinds of track a fetched list is made of, in the order in which the
\* list carries them (no stage of the filter depends on the positions)
Kinds == <<"karaoke", "disliked", "likedRecent", "likedAtCutoff",
           "playedRecent", "otherGenre", "noGenre", "hardRock", "clean">>

Rank(c) == CHOOSE r \in 1..Len(Kinds) : Kinds[r] = c

\* the normalized track at position i of a fetched list: odd positions carry
\* a numeric id (as the iTunes trackId is), even ones a string id
NewTrack(i, c) ==
  [id        |-> IF i % 2 = 1 THEN Num(i) ELSE Str(NumberToString(i)),
   title     |-> IF c = "karaoke" THEN TitleKaraoke ELSE TitleHit,
   artist    |-> <<Upper[((i - 1) % 7) + 1]>>,
   album     |-> AlbumLP,
   genreName |-> IF c = "otherGenre" THEN GenrePop
                 ELSE IF c = "noGenre" THEN <<>>
                 ELSE IF c = "hardRock" THEN GenreHardRock ELSE GenreRock]

\* the kind of a track of the list, read back from the track and the refs
KindOf(t) ==
  IF t.title = TitleKaraoke THEN "karaoke"
  ELSE IF trackKey(t) \in dislikedPersistentRef THEN "disliked"
  ELSE IF ObjGet(likedDatesRef, PropKey(trackKey(t))) > cutoffRef THEN "likedRecent"
  ELSE IF ObjGet(likedDatesRef, PropKey(trackKey(t))) # 0 THEN "likedAtCutoff"
  ELSE IF ObjGet(playedDatesRef, PropKey(trackKey(t))) # 0 THEN "playedRecent"
  ELSE IF t.genreName = GenrePop THEN "otherGenre"
  ELSE IF t.genreName = <<>> THEN "noGenre"
  ELSE IF t.genreName = GenreHardRock THEN "hardRock"
  ELSE "clean"

NumClean(list) == Cardinality({i \in 1..Len(list) : KindOf(list[i]) = "clean"})

\* the fetched list grows by one track of kind c, and the refs hold what
\* makes it a track of that kind: a dislike, a like one day inside the
\* window or exactly at its edge, a play of today
AddTrack ==
  /\ fop = "build"
  /\ \E r \in 1..Len(Kinds) :
       LET c == Kinds[r]
           t == NewTrack(Len(fetched) + 1, c)
           k == trackKey(t)
       IN  /\ c = "playedRecent" => rev = "V1.14"
           /\ fetched # <<>> => r >= Rank(KindOf(fetched[Len(fetched)]))
           /\ IF c = "clean" THEN NumClean(fetched) < MaxClean
              ELSE Len(fetched) - NumClean(fetched) < MaxDefects
           /\ fetched' = Append(fetched, t)
           /\ dislikedPersistentRef' =
                IF c = "disliked" THEN dislikedPersistentRef \cup {k}
                ELSE dislikedPersistentRef
           /\ likedDatesRef' =
                IF c = "likedRecent" THEN ObjSet(likedDatesRef, PropKey(k), cutoffRef + 1)
                ELSE IF c = "likedAtCutoff" THEN ObjSet(likedDatesRef, PropKey(k), cutoffRef)
                ELSE likedDatesRef
           /\ playedDatesRef' =
                IF c = "playedRecent" THEN ObjSet(playedDatesRef, PropKey(k), now)
                ELSE playedDatesRef
  /\ UNCHANGED <<rev, now, cutoffRef, dislikeSet, storedDisliked,
                 storedLikedDates, storedPlayedDates, idsForTighten, tracks,
                 launches, userDisliked, fop>>
  /\ UNCHANGED <<divVars, laterVars>>

\* the genre selections a call may pass: none, Rock, Pop, and Metal, an id
\* that only the genre table of V1.14 knows
GenreSelections ==
  {<<>>, <<GENRE_FALLBACK>>, <<DEFAULT_GENRES[1].id>>, <<DEFAULT_GENRES_V114[4].id>>}

\* res = applyGlobalFilters(res, ids); setTracks(res)
ApplyFilters ==
  /\ fop = "build"
  /\ \E ids \in GenreSelections :
       /\ idsForTighten' = ids
       /\ tracks' = applyGlobalFilters(rev, fetched, ids, Prefs)
  /\ fop' = "filtered"
  /\ UNCHANGED <<rev, now, cutoffRef, dislikedPersistentRef, dislikeSet,
                 likedDatesRef, playedDatesRef, storedDisliked,
                 storedLikedDates, storedPlayedDates, fetched, launches,
                 userDisliked>>
  /\ UNCHANGED <<divVars, laterVars>>

InitFilters ==
  /\ IdleDiv
  /\ IdleLater
  /\ rev \in Revisions
  /\ now = FirstDay
  /\ cutoffRef = FirstDay - CooldownDays(rev)
  /\ dislikedPersistentRef = {}
  /\ dislikeSet = {}
  /\ likedDatesRef = EmptyObj
  /\ playedDatesRef = EmptyObj
  /\ storedDisliked = {}
  /\ storedLikedDates = EmptyObj
  /\ storedPlayedDates = EmptyObj
  /\ fetched = <<>>
  /\ idsForTighten = <<>>
  /\ tracks = <<>>
  /\ launches = 0
  /\ userDisliked = {}
  /\ fop = "build"

NextFilters ==
  \/ AddTrack
  \/ ApplyFilters

\* calls of applyGlobalFilters on every fetched list within the bounds
SpecFilters == InitFilters /\ [][NextFilters]_vars

\* ------------------------------------------- part_000: the running app
\* The backend serves the same catalogue at every fetch: clean Rock tracks,
\* numbered from 1.  The user reacts to the first two of them, one with a
\* numeric and one with a string id.  The like lists (likeSet,
\* likedPersistent, ...) are left out: applyGlobalFilters does not read them.
Reactive == {1, 2}

SessionFeed(m) == [i \in 1..m |-> NewTrack(i, "clean")]

\* how many tracks a fetch returns
FeedSizes == {MaxFeed - 1, MaxFeed}

\* the days that pass between two launches
Elapsed(r) == {1}

\* whether playPreview(0) records a play: the previews of the catalogue
\* load and play, and only V1.14 records that
PlayedChoices(r) == {r = "V1.14"}

\* markPlayedTimestamp(list[0]) at the end of playPreview(0), when it played
PlayedAfter(dates, list, played, day) ==
  IF played /\ list # <<>>
  THEN ObjSet(dates, PropKey(trackKey(list[1])), day)
  ELSE dates

\* the initial load (the effect that runs once per launch): the refs are
\* read back from storage, the disliked keys through .map(String); the
\* profile has no favourite genres, so startIds = [GENRE_FALLBACK]
InitialLoad ==
  /\ launches < MaxLaunches
  /\ \E d \in Elapsed(rev), m \in FeedSizes, played \in PlayedChoices(rev) :
       LET day      == IF launches = 0 THEN now ELSE now + d
           P        == [disliked    |-> {String(v) : v \in storedDisliked},
                        likedDates  |-> storedLikedDates,
                        playedDates |-> storedPlayedDates,
                        cutoff      |-> day - CooldownDays(rev)]
           startIds == <<GENRE_FALLBACK>>
           initial  == applyGlobalFilters(rev, SessionFeed(m), startIds, P)
       IN  /\ now' = day
           /\ dislikedPersistentRef' = P.disliked
           /\ likedDatesRef' = P.likedDates
           /\ cutoffRef' = P.cutoff
           /\ fetched' = SessionFeed(m)
           /\ idsForTighten' = startIds
           /\ tracks' = initial
           /\ playedDatesRef' = PlayedAfter(P.playedDates, initial, played, day)
           /\ storedPlayedDates' = PlayedAfter(P.playedDates, initial, played, day)
  /\ dislikeSet' = {}
  /\ launches' = launches + 1
  /\ fop' = "filtered"
  /\ UNCHANGED <<rev, storedDisliked, storedLikedDates, userDisliked>>
  /\ UNCHANGED <<divVars, laterVars>>

\* refreshDiscoveryFeed(): no explicit, session or profile genre ids, so
\* ids = [], the fetch is fetchTracks(GENRE_FALLBACK)
refreshDiscoveryFeed ==
  /\ fop \in {"filtered", "reacted"}
  /\ \E m \in FeedSizes, played \in PlayedChoices(rev) :
       LET res == applyGlobalFilters(rev, SessionFeed(m), <<>>, Prefs)
       IN  /\ fetched' = SessionFeed(m)
           /\ idsForTighten' = <<>>
           /\ tracks' = res
           /\ playedDatesRef' = PlayedAfter(playedDatesRef, res, played, now)
           /\ storedPlayedDates' = PlayedAfter(playedDatesRef, res, played, now)
  /\ fop' = "filtered"
  /\ UNCHANGED <<rev, now, cutoffRef, dislikedPersistentRef, dislikeSet,
                 likedDatesRef, storedDisliked, storedLikedDates, launches,
                 userDisliked>>
  /\ UNCHANGED <<divVars, laterVars>>

\* the cards of the feed the user reacts to
ReactiveTracks ==
  {tracks[i] : i \in {j \in 1..Len(tracks) : \E n \in Reactive : tracks[j] = NewTrack(n, "clean")}}

\* isDislikedKey(k), what the card shows
isDislikedKey(k) == k \in dislikeSet \/ k \in dislikedPersistentRef

\* the body of onDislike(t)
DislikeEffect(t) ==
  LET k == trackKey(t)
  IN  /\ dislikeSet' = dislikeSet \cup {k}
      /\ dislikedPersistentRef' = dislikedPersistentRef \cup {k}
      /\ storedDisliked' = IF k \notin dislikedPersistentRef
                           THEN dislikedPersistentRef \cup {k}
                           ELSE storedDisliked
      /\ userDisliked' = userDisliked \cup {k}

\* onDislike(t), from the swipe
onDislike ==
  /\ fop \in {"filtered", "reacted"}
  /\ \E t \in ReactiveTracks : DislikeEffect(t)
  /\ fop' = "reacted"
  /\ UNCHANGED <<rev, now, cutoffRef, likedDatesRef, playedDatesRef,
                 storedLikedDates, storedPlayedDates, fetched, idsForTighten,
                 tracks, launches>>
  /\ UNCHANGED <<divVars, laterVars>>

\* onToggleDislike(t, currentlyDisliked), from the button of the card
onToggleDislike ==
  /\ fop \in {"filtered", "reacted"}
  /\ \E t \in ReactiveTracks :
       LET k == trackKey(t)
       IN  IF isDislikedKey(k)
           THEN /\ dislikeSet' = dislikeSet \ {k}
                /\ dislikedPersistentRef' = dislikedPersistentRef \ {k}
                /\ storedDisliked' = IF k \in dislikedPersistentRef
                                     THEN dislikedPersistentRef \ {k}
                                     ELSE storedDisliked
                /\ userDisliked' = userDisliked \ {k}
           ELSE DislikeEffect(t)
  /\ fop' = "reacted"
  /\ UNCHANGED <<rev, now, cutoffRef, likedDatesRef, playedDatesRef,
                 storedLikedDates, storedPlayedDates, fetched, idsForTighten,
                 tracks, launches>>
  /\ UNCHANGED <<divVars, laterVars>>

\* onLike(t): V1.8 takes the key out of the persistent dislikes
\* (persistAddLike), V1.14 leaves them alone; both mark the like's time
onLike ==
  /\ fop \in {"filtered", "reacted"}
  /\ \E t \in ReactiveTracks :
       LET k == trackKey(t)
       IN  /\ dislikeSet' = dislikeSet \ {k}
           /\ IF rev = "V1.8"
              THEN /\ dislikedPersistentRef' = dislikedPersistentRef \ {k}
                   /\ storedDisliked' = IF k \in dislikedPersistentRef
                                        THEN dislikedPersistentRef \ {k}
                                        ELSE storedDisliked
                   /\ userDisliked' = userDisliked \ {k}
              ELSE UNCHANGED <<dislikedPersistentRef, storedDisliked, userDisliked>>
           /\ likedDatesRef' = ObjSet(likedDatesRef, PropKey(k), now)
           /\ storedLikedDates' = ObjSet(likedDatesRef, PropKey(k), now)
  /\ fop' = "reacted"
  /\ UNCHANGED <<rev, now, cutoffRef, playedDatesRef, storedPlayedDates,
                 fetched, idsForTighten, tracks, launches>>
  /\ UNCHANGED <<divVars, laterVars>>

\* a fresh install: nothing stored, the app not yet started
InitSession ==
  /\ IdleDiv
  /\ IdleLater
  /\ rev \in Revisions
  /\ now = FirstDay
  /\ cutoffRef = FirstDay - CooldownDays(rev)
  /\ dislikedPersistentRef = {}
  /\ dislikeSet = {}
  /\ likedDatesRef = EmptyObj
  /\ playedDatesRef = EmptyObj
  /\ storedDisliked = {}
  /\ storedLikedDates = EmptyObj
  /\ storedPlayedDates = EmptyObj
  /\ fetched = <<>>
  /\ idsForTighten = <<>>
  /\ tracks = <<>>
  /\ launches = 0
  /\ userDisliked = {}
  /\ fop = "off"

NextSession ==
  \/ InitialLoad
  \/ refreshDiscoveryFeed
  \/ onDislike
  \/ onToggleDislike
  \/ onLike

\* launches of the app, reactions to the cards and refreshes of the feed
SpecSession == InitSession /\ [][NextSession]_vars

\* ------------------------------------------- part_000: 32-bit seeds, rng
\* A JS number that is an integer of fewer than 33 bits is kept as a pair
\* <<top, low>> that stands for top * 65536 + low, with low in 0..65535: the
\* values that ^ and >>> produce pass 2^31 - 1, the largest integer the
\* checker computes with.  top is 0..65535 for an unsigned 32-bit value and
\* -32768..32767 for a signed one.
Half == 2^16

\* bitwise exclusive or of two values of 0..65535
RECURSIVE Xor16(_, _)
Xor16(a, b) ==
  IF a = 0 THEN b
  ELSE IF b = 0 THEN a
  ELSE 2 * Xor16(a \div 2, b \div 2) + (((a % 2) + (b % 2)) % 2)

\* ToUint32: the 32 bits of an integer number, as <<high half, low half>>
ToUint32(n) == <<n[1] % Half, n[2]>>

\* ToInt32: the number those 32 bits stand for in two's complement
ToInt32(n) ==
  LET u == ToUint32(n)
  IN  IF u[1] >= (Half \div 2) THEN <<u[1] - Half, u[2]>> ELSE u

\* a ^ b: ToInt32 of both operands, bitwise xor, a signed 32-bit result
BitXor(a, b) ==
  ToInt32(<<Xor16(ToUint32(a)[1], ToUint32(b)[1]),
            Xor16(ToUint32(a)[2], ToUint32(b)[2])>>)

\* a >>> 0
UnsignedShift0(a) == ToUint32(a)

\* the number of a small non-negative integer
NumOf(i) == <<i \div Half, i % Half>>

\* i * 2654435761 for a small index i >= 0, exact (the product stays far
\* below 2^53); 2654435761 = 40503 * 65536 + 31153
MulGolden(i) ==
  LET low == i * 31153
  IN  <<(i * 40503) + (low \div Half), low % Half>>

\* 0x9e3779b1 (= 2654435761)
GOLDEN == <<40503, 31153>>

\* the modulus 2147483647 and the multiplier 48271 of rng
RNG_MODULUS == 2147483647
RNG_MULTIPLIER == 48271

\* seed % 2147483647 of JS (the sign of the result is that of seed) for a
\* number of -2^32 < seed < 2^32
RemModulus(n) ==
  IF n[1] >= (Half \div 2) THEN
    \* seed = w + 2^31 = w + 2147483647 + 1 with 0 <= w < 2^31
    LET w == ((n[1] - (Half \div 2)) * Half) + n[2]
    IN  IF w >= RNG_MODULUS - 1 THEN w - (RNG_MODULUS - 1) ELSE w + 1
  ELSE IF n[1] >= 0 THEN
    LET v == (n[1] * Half) + n[2]
    IN  IF v = RNG_MODULUS THEN 0 ELSE v
  ELSE
    \* seed < 0: -((-seed) % 2147483647), with -seed <= 2^31
    LET v == (n[1] * Half) + n[2]
    IN  IF v + RNG_MODULUS < 0 THEN v + RNG_MODULUS
        ELSE IF v + RNG_MODULUS = 0 THEN 0 ELSE v

\* rng(seed): let t = seed % 2147483647; if (t <= 0) t += 2147483646;
\* the value is the state t the closure starts from
rng(seed) ==
  LET t == RemModulus(seed)
  IN  IF t <= 0 THEN t + 2147483646 ELSE t

\* t = (t * 48271) % 2147483647 for 0 <= t < 2147483647.  The product is
\* exact in a double (below 2^53); here it is split as Schrage does,
\* 2147483647 = 48271 * 44488 + 3399, so that no intermediate value passes
\* 2^31 - 1.
NextState(t) ==
  LET q == RNG_MODULUS \div RNG_MULTIPLIER
      r == RNG_MODULUS % RNG_MULTIPLIER
      x == (RNG_MULTIPLIER * (t % q)) - (r * (t \div q))
  IN  IF x < 0 THEN x + RNG_MODULUS ELSE x

\* Math.floor((t / 2147483647) * k) for 0 <= t < 2147483647 and a small
\* k >= 1: the number of j in 1..k-1 with j * 2147483647 / k <= t.  (The
\* double product is within 1e-13 of the exact quotient, which is at least
\* 1/2147483647 away from every integer it does not equal.)
FloorScaled(t, k) ==
  LET q == RNG_MODULUS \div k
      r == RNG_MODULUS % k
      ceilOf(j) == (j * q) + ((j * r) \div k) + (IF (j * r) % k = 0 THEN 0 ELSE 1)
  IN  Cardinality({j \in 1..(k - 1) : ceilOf(j) <= t})

\* arr with the elements at i and j exchanged
Swap(arr, i, j) ==
  [x \in 1..Len(arr) |-> IF x = i THEN arr[j] ELSE IF x = j THEN arr[i] ELSE arr[x]]

\* one turn of the loop of shuffleInPlace on st = [arr, t], the array and
\* the state of rand:
\*   const j = Math.floor(rand() * (i + 1)); [arr[i], arr[j]] = [arr[j], arr[i]];
\* i counts as in the source (from 0)
\* a turn that copies arr[j] to arr[i] and does not write arr[j]
ShuffleStepOverwrite(st, i) ==
  LET t2 == NextState(st.t)
      j  == FloorScaled(t2, i + 1)
  IN  [arr |-> [st.arr EXCEPT ![i + 1] = st.arr[j + 1]], t |-> t2]

ShuffleStep(st, i) ==
  LET t2 == NextState(st.t)
      j  == FloorScaled(t2, i + 1)
  IN  [arr |-> Swap(st.arr, i + 1, j + 1), t |-> t2]

\* the loop of shuffleInPlace: for (let i = arr.length - 1; i > 0; i--) { ... }
\* (the turn is bound as a value before the loop goes on with it)
RECURSIVE ShuffleLoop(_, _)
ShuffleLoop(st, i) ==
  IF i <= 0 THEN st.arr
  ELSE CHOOSE res \in {ShuffleLoop(st2, i - 1) : st2 \in {ShuffleStep(st, i)}} : TRUE

\* shuffleInPlace(arr, seed)
shuffleInPlace(arr, seed) ==
  CHOOSE res \in {ShuffleLoop(st, Len(st.arr) - 1) :
                    st \in {[arr |-> arr, t |-> rng(seed)]}} : TRUE

\* --------------------------------- part_000: the seeds fetchTracksForGenres derives
\* the base seeds tried: 0, 1, an ordinary value, the values around the
\* modulus of rng and around 2^31, the largest one, 0x9e3779b1 and
\* 0x1e3779b3 (makeSeed() returns any unsigned 32-bit value)
SeedSamples ==
  { <<0, 0>>, <<0, 1>>, <<0, 12345>>,
    <<32767, 65534>>, <<32767, 65535>>, <<32768, 0>>, <<32768, 1>>,
    <<65535, 65535>>, GOLDEN, <<7735, 31155>> }

\* the genre ids a caller may pass
GenreIdSamples == {0, DEFAULT_GENRES[1].id, GENRE_FALLBACK}

\* the genre lists a caller may pass: up to MaxIds ids
GenreLists == UNION {[1..n -> GenreIdSamples] : n \in 0..MaxIds}

\* V1.8:  const ids = (genreIds || []).filter(Boolean);
\* V1.14: const ids = (genreIds || []).filter((x) => x !== undefined && x !== null);
AcceptedIds(r, genreIds) ==
  IF r = "V1.8" THEN SelectSeq(genreIds, LAMBDA id : id # 0) ELSE genreIds

\* the seed of the bucket fetch of the id at index i (from 0):
\* (perSeed ^ Number(id) ^ (i * 2654435761)) >>> 0
BucketSeed(perSeed, id, i) ==
  UnsignedShift0(BitXor(BitXor(perSeed, NumOf(id)), MulGolden(i)))

\* the seed of the final shuffle: perSeed ^ 0x9e3779b1
FinalSeed(perSeed) == BitXor(perSeed, GOLDEN)

\* fetchTracksForGenres(genreIds, seed) derives its seeds
DeriveSeeds ==
  /\ sop = "seed"
  /\ \E genreIds \in GenreLists :
       LET ids == AcceptedIds(rev, genreIds)
       IN  /\ idsAccepted' = ids
           /\ bucketSeeds' = [i \in 1..Len(ids) |-> BucketSeed(baseSeed, ids[i], i - 1)]
  /\ finalSeed' = FinalSeed(baseSeed)
  /\ sop' = "derived"
  /\ UNCHANGED <<baseSeed, rngSeed, rngState, draws>>
  /\ UNCHANGED <<divVars, filterVars, fetchVars, restVars>>

\* the seeds that reach rng: the seed passed on to fetchTracks when no id is
\* accepted, the bucket seeds, and, when an id is accepted, the final seed
SeedsForRng ==
  IF idsAccepted = <<>> THEN {baseSeed}
  ELSE {bucketSeeds[i] : i \in 1..Len(bucketSeeds)} \cup {finalSeed}

\* const rand = rng(seed), in shuffleInPlace
CallRng ==
  /\ sop = "derived"
  /\ \E seed \in SeedsForRng :
       /\ rngSeed' = seed
       /\ rngState' = rng(seed)
  /\ draws' = 0
  /\ sop' = "rng"
  /\ UNCHANGED <<baseSeed, idsAccepted, bucketSeeds, finalSeed>>
  /\ UNCHANGED <<divVars, filterVars, fetchVars, restVars>>

\* rand(): t = (t * 48271) % 2147483647; the value returned is t / 2147483647
Rand ==
  /\ sop = "rng"
  /\ draws < MaxDraws
  /\ rngState' = NextState(rngState)
  /\ draws' = draws + 1
  /\ UNCHANGED <<baseSeed, idsAccepted, bucketSeeds, finalSeed, rngSeed, sop>>
  /\ UNCHANGED <<divVars, filterVars, fetchVars, restVars>>

InitSeeds ==
  /\ IdleDiv
  /\ \E r \in Revisions : IdleFeedOf(r)
  /\ baseSeed \in SeedSamples
  /\ idsAccepted = <<>>
  /\ bucketSeeds = <<>>
  /\ finalSeed = <<0, 0>>
  /\ rngSeed = <<0, 0>>
  /\ rngState = 1
  /\ draws = 0
  /\ sop = "seed"
  /\ IdleFetch
  /\ IdleRest

NextSeeds ==
  \/ DeriveSeeds
  \/ CallRng
  \/ Rand

\* the seeds of every call of fetchTracksForGenres within the bounds, and
\* the generators started from them
SpecSeeds == InitSeeds /\ [][NextSeeds]_vars

\* ------------------------------------- part_000: fetchTracks, dedupeById
\* the loop of dedupeById, and of the same loop at the end of
\* fetchTracksForGenres; st = [seen, out]
\* mutant of DedupeStep: a later track replaces the earlier one of its key
DedupeStepKeepLast(st, t) ==
  LET k == trackKey(t)
  IN  [seen |-> st.seen \cup {k},
       out  |-> Append(SelectSeq(st.out, LAMBDA u : trackKey(u) # k), t)]

\* one turn of the loop of dedupeById on st = [seen, out]:
\*   const k = trackKey(t); if (seen.has(k)) continue; seen.add(k); out.push(t);
DedupeStep(st, t) ==
  LET k == trackKey(t)
  IN  IF k \in st.seen THEN st
      ELSE [seen |-> st.seen \cup {k}, out |-> Append(st.out, t)]

\* for (const t of list) { ... }, from the i-th element on
\* (the turn is bound as a value before the loop goes on with it)
RECURSIVE DedupeLoop(_, _, _)
DedupeLoop(list, i, st) ==
  IF i > Len(list) THEN st
  ELSE CHOOSE res \in {DedupeLoop(list, i + 1, st2) :
                         st2 \in {DedupeStep(st, list[i])}} : TRUE

\* dedupeById(list)
dedupeById(list) ==
  CHOOSE res \in {DedupeLoop(l, 1, [seen |-> {}, out |-> <<>>]).out :
                    l \in {list}} : TRUE

\* What the backend does with one request: <<"ok", n>> is a 2xx response
\* whose body lists n records, <<"wrongshape", 0>> a 2xx response whose JSON
\* body holds no array, <<"badjson", 0>> a 2xx response whose body is not
\* JSON (res.json() rejects), <<"non2xx", 0>> any other status (fetchTracks
\* throws), <<"network", 0>> a rejected fetch, and <<"hang", 0>> no response
\* at all.  <<"unasked", 0>> marks a request the backend has not yet seen.
Unasked == <<"unasked", 0>>
Hang == <<"hang", 0>>

Responses ==
  {<<"ok", n>> : n \in 1..MaxBucket}
    \cup {<<"wrongshape", 0>>, <<"badjson", 0>>, <<"non2xx", 0>>, <<"network", 0>>}

\* whether fetchTracks throws on the response
Throws(a) == a[1] \in {"badjson", "non2xx", "network"}

\* the first track number of the catalogue of a genre: the catalogues of
\* Rock and Pop share one track
CatalogueBase(id) ==
  IF id = GENRE_FALLBACK THEN 1
  ELSE IF id = DEFAULT_GENRES[1].id THEN MaxBucket
  ELSE 2 * MaxBucket

\* the track object normalizeTrack makes of a record; ref tells the objects
\* of different responses apart
WithRef(t, r) ==
  [f \in (DOMAIN t) \cup {"ref"} |-> IF f = "ref" THEN r ELSE t[f]]

\* list.map(normalizeTrack) for the n records the backend lists for a genre
\* in the response to request number req
Records(id, n, req) ==
  [k \in 1..n |-> WithRef(NewTrack(CatalogueBase(id) + k - 1, "clean"), <<req, k>>)]

\* fetchTracks(genreId, seed) on a response it does not throw on:
\* shuffleInPlace(diversify(list.map(normalizeTrack).filter(t.title && t.artist)), seed)
fetchTracks(r, id, seed, a, req) ==
  LET list    == IF a[1] = "ok" THEN Records(id, a[2], req) ELSE <<>>
      named   == SelectSeq(list, LAMBDA t : t.title # <<>> /\ t.artist # <<>>)
  IN  shuffleInPlace(IF r = "V1.8" THEN diversifyV18(named) ELSE diversifyV114(named),
                     seed)

\* ------------------------------------- part_000: fetchTracksForGenres
\* mutant of AfterBucket: a bucket fetch that throws rejects Promise.all
AfterBucketUncaught(a) == IF Throws(a) THEN "threw" ELSE "waiting"

\* try { return await fetchTracks(...) } catch { return []; }: whatever the
\* bucket fetch does, the function goes on waiting for Promise.all
AfterBucket(a) == "waiting"

\* mutant of SettleBucket: the results are kept in the order of arrival
SettleBucketOnArrival(bs, i, arr) == Append(bs, arr)

\* Promise.all keeps the result of the i-th promise at index i
SettleBucket(bs, i, arr) == [bs EXCEPT ![i] = arr]

\* Math.max(...nonEmpty.map((arr) => arr.length))
RECURSIVE MaxLength(_)
MaxLength(nonEmpty) ==
  IF nonEmpty = <<>> THEN 0
  ELSE Max(Len(Head(nonEmpty)), MaxLength(Tail(nonEmpty)))

\* mutant of InterleaveLoop: the two loops are exchanged, which concatenates
\* the buckets
RECURSIVE InterleaveLoopBucketFirst(_, _, _, _, _)
InterleaveLoopBucketFirst(nonEmpty, maxLen, i, g, acc) ==
  IF g >= Len(nonEmpty) THEN acc
  ELSE IF i >= maxLen THEN
    InterleaveLoopBucketFirst(nonEmpty, maxLen, 0, g + 1, acc)
  ELSE IF i < Len(nonEmpty[g + 1]) THEN
    InterleaveLoopBucketFirst(nonEmpty, maxLen, i + 1, g,
                              Append(acc, nonEmpty[g + 1][i + 1]))
  ELSE InterleaveLoopBucketFirst(nonEmpty, maxLen, i + 1, g, acc)

\* for (let i = 0; i < maxLen; i++) for (let g = 0; g < nonEmpty.length; g++) {
\*   const item = nonEmpty[g][i]; if (item) mixed.push(item); }
\* i and g count as in the source (from 0)
RECURSIVE InterleaveLoop(_, _, _, _, _)
InterleaveLoop(nonEmpty, maxLen, i, g, acc) ==
  IF i >= maxLen THEN acc
  ELSE IF g >= Len(nonEmpty) THEN
    InterleaveLoop(nonEmpty, maxLen, i + 1, 0, acc)
  ELSE IF i < Len(nonEmpty[g + 1]) THEN
    InterleaveLoop(nonEmpty, maxLen, i, g + 1,
                   Append(acc, nonEmpty[g + 1][i + 1]))
  ELSE InterleaveLoop(nonEmpty, maxLen, i, g + 1, acc)

Interleave(nonEmpty) ==
  InterleaveLoop(nonEmpty, MaxLength(nonEmpty), 0, 0, <<>>)

\* the rest of fetchTracksForGenres once Promise.all has resolved with at
\* least one non-empty bucket: [mixed, out].  The loop that follows the
\* shuffle (const seen = new Set(); const out = []; for (const t of mixed)
\* { const k = trackKey(t); if (!seen.has(k)) { seen.add(k); out.push(t); } })
\* is the loop of dedupeById.
\* the interleaved buckets shuffled and returned as they are
MixAndShuffleOnly(nonEmpty, perSeed) ==
  CHOOSE res \in {[mixed |-> mixedSeq,
                    out   |-> shuffleInPlace(mixedSeq, FinalSeed(perSeed))] :
                    mixedSeq \in {Interleave(nonEmpty)}} : TRUE

MixAndShuffle(nonEmpty, perSeed) ==
  CHOOSE res \in {[mixed |-> mixedSeq,
                    out   |-> dedupeById(shuffleInPlace(mixedSeq, FinalSeed(perSeed)))] :
                    mixedSeq \in {Interleave(nonEmpty)}} : TRUE

\* the genre lists passed to fetchTracksForGenres
FetchLists ==
  { <<>>, <<0>>, <<GENRE_FALLBACK>>,
    <<DEFAULT_GENRES[1].id, GENRE_FALLBACK>>,
    <<GENRE_FALLBACK, GENRE_FALLBACK>>,
    <<GENRE_FALLBACK, 0>> }

\* the base seeds passed to it
FetchSeeds == {<<0, 12345>>, <<7735, 31155>>}

\* the filter variables a fetch leaves alone (setTracks writes tracks)
feedButTracks ==
  <<rev, now, cutoffRef, dislikedPersistentRef, dislikeSet, likedDatesRef,
    playedDatesRef, storedDisliked, storedLikedDates, storedPlayedDates,
    fetched, idsForTighten, launches, userDisliked, fop>>

\* the state of a call that has just been made with the accepted ids
Started(ids) ==
  /\ calls' = [i \in 1..Len(ids) |-> "pending"]
  /\ buckets' = [i \in 1..Len(ids) |-> <<>>]
  /\ mixed' = <<>>
  /\ fout' = <<>>
  /\ fphase' = IF ids = <<>> THEN "fallback" ELSE "waiting"
  /\ defaultFetches' = IF ids = <<>> THEN 1 ELSE 0

\* fetchTracksForGenres(genreIds, seed) is called: with no accepted id it
\* returns fetchTracks(GENRE_FALLBACK, seed), otherwise it starts one bucket
\* fetch per id and awaits Promise.all
CallFetchTracksForGenres ==
  /\ fphase = "idle"
  /\ \E genreIds \in FetchLists :
       LET ids == AcceptedIds(rev, genreIds)
       IN  /\ idsAccepted' = ids
           /\ bucketSeeds' = [i \in 1..Len(ids) |-> BucketSeed(baseSeed, ids[i], i - 1)]
           /\ served' = [i \in 1..Len(ids) |-> Unasked]
           /\ Started(ids)
  /\ finalSeed' = FinalSeed(baseSeed)
  /\ UNCHANGED <<baseSeed, rngSeed, rngState, draws, sop>>
  /\ UNCHANGED <<servedDefault, run, prevOut>>
  /\ UNCHANGED <<divVars, filterVars, restVars>>

\* the backend answers the bucket fetch of index i; a second run of the
\* pipeline gets the answers of the first.  The ids of FetchLists are finite
\* and not negative, so V1.14 fetches every one of them, as V1.8 does.
BucketSettles ==
  /\ fphase = "waiting"
  /\ \E i \in 1..Len(calls), a \in Responses :
       /\ calls[i] = "pending"
       /\ served[i] \in {Unasked, a}
       /\ served' = [served EXCEPT ![i] = a]
       /\ calls' = [calls EXCEPT ![i] = "settled"]
       /\ \E arr \in {IF Throws(a) THEN <<>>
                      ELSE fetchTracks(rev, idsAccepted[i], bucketSeeds[i], a, i)} :
            buckets' = SettleBucket(buckets, i, arr)
       /\ fphase' = AfterBucket(a)
  /\ UNCHANGED <<servedDefault, defaultFetches, mixed, fout, run, prevOut>>
  /\ UNCHANGED seedVars
  /\ UNCHANGED <<divVars, filterVars, restVars>>

\* the backend never answers the bucket fetch of index i
BucketHangs ==
  /\ fphase = "waiting"
  /\ \E i \in 1..Len(calls) :
       /\ calls[i] = "pending"
       /\ served[i] = Unasked
       /\ served' = [served EXCEPT ![i] = Hang]
  /\ UNCHANGED <<servedDefault, calls, buckets, defaultFetches, mixed, fout,
                 fphase, run, prevOut>>
  /\ UNCHANGED seedVars
  /\ UNCHANGED <<divVars, filterVars, restVars>>

\* Promise.all has resolved: with no non-empty bucket the function returns
\* fetchTracks(GENRE_FALLBACK, seed), otherwise it interleaves, shuffles,
\* dedupes and returns; refreshDiscoveryFeed then filters and sets the feed
PromiseAllResolves ==
  /\ fphase = "waiting"
  /\ \A i \in 1..Len(calls) : calls[i] = "settled"
  /\ \E nonEmpty \in {SelectSeq(buckets, LAMBDA b : b # <<>>)} :
       IF nonEmpty = <<>>
       THEN /\ fphase' = "fallback"
            /\ defaultFetches' = defaultFetches + 1
            /\ UNCHANGED <<mixed, fout, tracks>>
       ELSE \E done \in {MixAndShuffle(nonEmpty, baseSeed)} :
              /\ fphase' = "returned"
              /\ mixed' = done.mixed
              /\ fout' = done.out
              /\ tracks' = applyGlobalFilters(rev, done.out, idsAccepted, Prefs)
              /\ UNCHANGED defaultFetches
  /\ UNCHANGED <<served, servedDefault, calls, buckets, run, prevOut>>
  /\ UNCHANGED seedVars
  /\ UNCHANGED <<divVars, feedButTracks, restVars>>

\* the backend answers the default-genre fetch: fetchTracksForGenres returns
\* what fetchTracks returns, or throws what it throws
DefaultFetchSettles ==
  /\ fphase = "fallback"
  /\ \E a \in Responses :
       /\ servedDefault \in {Unasked, a}
       /\ servedDefault' = a
       /\ IF Throws(a)
          THEN /\ fphase' = "threw"
               /\ UNCHANGED <<fout, tracks>>
          ELSE \E res \in {fetchTracks(rev, GENRE_FALLBACK, baseSeed, a, 0)} :
                 /\ fphase' = "returned"
                 /\ fout' = res
                 /\ tracks' = applyGlobalFilters(rev, res, idsAccepted, Prefs)
  /\ UNCHANGED <<served, calls, buckets, defaultFetches, mixed, run, prevOut>>
  /\ UNCHANGED seedVars
  /\ UNCHANGED <<divVars, feedButTracks, restVars>>

\* the backend never answers the default-genre fetch
DefaultFetchHangs ==
  /\ fphase = "fallback"
  /\ servedDefault = Unasked
  /\ servedDefault' = Hang
  /\ UNCHANGED <<served, calls, buckets, defaultFetches, mixed, fout, fphase,
                 run, prevOut>>
  /\ UNCHANGED seedVars
  /\ UNCHANGED <<divVars, filterVars, restVars>>

\* the pipeline is run a second time with the same arguments, against a
\* backend that answers every request as it did the first time
RunAgain ==
  /\ run = 1
  /\ fphase \in {"returned", "threw"}
  /\ prevOut' = [phase |-> fphase, out |-> fout, feed |-> tracks]
  /\ run' = 2
  /\ Started(idsAccepted)
  /\ UNCHANGED <<served, servedDefault>>
  /\ UNCHANGED seedVars
  /\ UNCHANGED <<divVars, filterVars, restVars>>

InitFetch ==
  /\ IdleDiv
  /\ \E r \in Revisions : IdleFeedOf(r)
  /\ baseSeed \in FetchSeeds
  /\ idsAccepted = <<>>
  /\ bucketSeeds = <<>>
  /\ finalSeed = <<0, 0>>
  /\ rngSeed = <<0, 0>>
  /\ rngState = 1
  /\ draws = 0
  /\ sop = "idle"
  /\ IdleFetch
  /\ IdleRest

NextFetch ==
  \/ CallFetchTracksForGenres
  \/ BucketSettles
  \/ BucketHangs
  \/ PromiseAllResolves
  \/ DefaultFetchSettles
  \/ DefaultFetchHangs
  \/ RunAgain

\* calls of fetchTracksForGenres against every behaviour of the backend
SpecFetch == InitFetch /\ [][NextFetch]_vars

\* the same, where every step that can be taken is taken in the end: the
\* backend answers each request unless it has chosen never to, and promises
\* that are resolved run their continuations
SpecFetchLive == SpecFetch /\ WF_vars(NextFetch)

\* ------------------------------------------ part_000: calls of dedupeById
\* a track object with the given id and title
Keyed(id, title) ==
  [id |-> id, title |-> title, artist |-> <<"X">>, album |-> AlbumLP]

\* the tracks the lists are built from: the numeric id 1 and the string id
\* "1" (different keys of a Set), a second track of id 1, two tracks without
\* id that share title|artist|album (ids 0 and "" are falsy), and a track
\* whose id is that string
DedupePool ==
  { Keyed(Num(1), <<"A">>), Keyed(Str(<<"1">>), <<"B">>), Keyed(Num(1), <<"C">>),
    Keyed(Num(0), <<"D">>), Keyed(Str(<<>>), <<"D">>),
    Keyed(Str(<<"D", "|", "X", "|", "L", "P">>), <<"E">>) }

\* the list grows by a track
PushTrack ==
  /\ dop = "build"
  /\ Len(dlist) < MaxDedupe
  /\ \E t \in DedupePool : dlist' = Append(dlist, t)
  /\ UNCHANGED <<dout, dtwice, dop>>
  /\ UNCHANGED <<divVars, filterVars, seedVars, fetchVars, loadVars, moreVars>>

\* dedupeById(list), and dedupeById of what it returned
CallDedupeById ==
  /\ dop = "build"
  /\ \E res \in {dedupeById(dlist)} :
       /\ dout' = res
       /\ dtwice' = dedupeById(res)
  /\ dop' = "deduped"
  /\ UNCHANGED dlist
  /\ UNCHANGED <<divVars, filterVars, seedVars, fetchVars, loadVars, moreVars>>

InitDedupe == IdleDiv /\ IdleFeed /\ IdleLater

NextDedupe == PushTrack \/ CallDedupeById

\* calls of dedupeById on every list of up to MaxDedupe tracks of the pool
SpecDedupe == InitDedupe /\ [][NextDedupe]_vars

\* --------------------------------------------------------- App.js: loadMore
\* const DEMOS = [...] (the fields loadMore reads; * stands for the bullet
\* of the artist names, ref tells the objects apart)
DEMOS ==
  << [id |-> Str(<<"d", "e", "m", "o", "-", "1">>),
      title |-> <<"S", "o", "u", "n", "d", "H", "e", "l", "i", "x", " ", "S", "o", "n", "g", " ", "1", " ", "(", "d", "e", "m", "o", ")">>,
      artist |-> <<"S", "o", "u", "n", "d", "H", "e", "l", "i", "x", " ", "*", " ", "D", "e", "m", "o">>,
      ref |-> 101,
      album |-> <<"D", "e", "m", "o", " ", "P", "a", "c", "k">>],
     [id |-> Str(<<"d", "e", "m", "o", "-", "2">>),
      title |-> <<"F", "u", "t", "u", "r", "e", " ", "B", "a", "s", "s", " ", "(", "d", "e", "m", "o", ")">>,
      artist |-> <<"P", "i", "x", "a", "b", "a", "y", " ", "*", " ", "D", "e", "m", "o">>,
      ref |-> 102,
      album |-> <<"D", "e", "m", "o", " ", "P", "a", "c", "k">>] >>

\* `${(it.title || '').trim()}|${(it.artist || '').trim()}|${(it.album || '').trim()}`.toLowerCase()
TrimmedKey(it) ==
  ToLowerCase(Trim(it.title) \o <<"|">> \o Trim(it.artist) \o <<"|">> \o Trim(it.album))

\* `${t.title}|${t.artist}|${t.album}`.toLowerCase()
LowerKey(t) ==
  ToLowerCase(t.title \o <<"|">> \o t.artist \o <<"|">> \o t.album)

\* `${t.title}|${t.artist}|${t.album}`
FeedKey(t) == t.title \o <<"|">> \o t.artist \o <<"|">> \o t.album

\* the loop of fetchTracks (App.js) over items, from the i-th on:
\* st = [seen, mapped]
RECURSIVE MappedLoop(_, _, _)
MappedLoop(its, i, st) ==
  IF i > Len(its) THEN st
  ELSE CHOOSE res \in
         {MappedLoop(its, i + 1, st2) :
            st2 \in {IF TrimmedKey(its[i]) \in st.seen THEN st
                     ELSE [seen   |-> st.seen \cup {TrimmedKey(its[i])},
                           mapped |-> Append(st.mapped, its[i])]}} : TRUE

\* fetchTracks({ genreId, limit }) of App.js on a 2xx response that lists
\* its: return mapped.length ? mapped : DEMOS
fetchTracksApp(its) ==
  CHOOSE res \in
    {IF st.mapped # <<>> THEN st.mapped ELSE DEMOS :
       st \in {MappedLoop(its, 1, [seen |-> {}, mapped |-> <<>>])}} : TRUE

\* const seen = new Set(tracks.map(...)); const fresh = batch.filter(t => !seen.has(...));
\* held is the tracks the closure of loadMore holds
FreshOf(batch, held) ==
  SelectSeq(batch, LAMBDA t : LowerKey(t) \notin {LowerKey(held[k]) : k \in 1..Len(held)})

\* new Map(all.map(x => [String(x.id), (x.artist || '').trim().toLowerCase()])).get(String(id)):
\* the artist of the last track of all with that id; <<>> stands for undefined
IdToArtist(all, id) ==
  LET hits == {k \in 1..Len(all) : String(all[k].id) = String(id)}
  IN  IF hits = {} THEN <<>>
      ELSE ToLowerCase(Trim(all[CHOOSE k \in hits : \A h \in hits : h <= k].artist))

\* new Set([...ref.current].map(id => idToArtist.get(String(id))).filter(Boolean))
ReactedArtists(all, ids) == {IdToArtist(all, id) : id \in ids} \ {<<>>}

\* what loadMore hands to setTracks's updater for a batch
Diversified(batch, held) ==
  CHOOSE res \in
    {biasAndDiversify(fresh, ReactedArtists(held \o fresh, likesRef),
                      ReactedArtists(held \o fresh, dislikesRef), PAGE_APP) :
       fresh \in {FreshOf(batch, held)}} : TRUE

\* a catalogue track (ref tells the objects of a response apart)
Song(n) ==
  [id |-> Num(n), title |-> <<"S", Digits[n + 1]>>, artist |-> <<Upper[n]>>,
   album |-> AlbumLP, ref |-> n]

\* the same track listed once more, with a padded title
Padded(t) == [t EXCEPT !.title = Append(t.title, " "), !.ref = t.ref + 10]

\* the items the backend may list in one response
Batches ==
  { <<>>, <<Song(1), Song(2)>>, <<Song(2), Song(3)>>,
    <<Song(1), Padded(Song(1))>>, <<Padded(Song(3))>> }

\* the calls of loadMore that may be in flight at the same time
Loaders == {1, 2}

\* onEndReached calls loadMore: the call holds the tracks of the last render
\* and awaits fetchTracks
CallLoadMore ==
  /\ Len(appTracks) < MaxAppFeed
  /\ \E c \in Loaders :
       /\ loads[c].phase = "idle"
       /\ loads' = [loads EXCEPT ![c] = [phase |-> "fetching", held |-> appTracks]]
  /\ UNCHANGED <<appTracks, likesRef, dislikesRef>>
  /\ UNCHANGED <<divVars, filterVars, seedVars, fetchVars, dedupeVars, moreVars>>

\* fetchTracks returns a batch to a call in flight, which appends what
\* biasAndDiversify keeps of the fresh tracks:
\* if (diversified.length) setTracks(prev => [...prev, ...diversified])
LoadMoreSettles ==
  /\ \E c \in Loaders, its \in Batches :
       /\ loads[c].phase = "fetching"
       /\ \E div \in {Diversified(fetchTracksApp(its), loads[c].held)} :
            appTracks' = IF div # <<>> THEN appTracks \o div ELSE appTracks
       /\ loads' = [loads EXCEPT ![c] = [phase |-> "idle", held |-> <<>>]]
  /\ UNCHANGED <<likesRef, dislikesRef>>
  /\ UNCHANGED <<divVars, filterVars, seedVars, fetchVars, dedupeVars, moreVars>>

\* fetchTracks throws (fetch rejects, the status is not 2xx, or the body is
\* not JSON): catch (e) { console.warn('loadMore error', e); }
LoadMoreFails ==
  /\ \E c \in Loaders :
       /\ loads[c].phase = "fetching"
       /\ loads' = [loads EXCEPT ![c] = [phase |-> "idle", held |-> <<>>]]
  /\ UNCHANGED <<appTracks, likesRef, dislikesRef>>
  /\ UNCHANGED <<divVars, filterVars, seedVars, fetchVars, dedupeVars, moreVars>>

\* the feed after the first load, with the reactions of the user
InitLoadMore ==
  /\ IdleDiv
  /\ IdleFeed
  /\ IdleSeeds
  /\ IdleFetch
  /\ dlist = <<>>
  /\ dout = <<>>
  /\ dtwice = <<>>
  /\ dop = "build"
  /\ appTracks \in {<<>>, <<Song(1), Song(2)>>}
  /\ loads = [c \in Loaders |-> [phase |-> "idle", held |-> <<>>]]
  /\ likesRef \in {{}, {Num(2)}}
  /\ dislikesRef \in {{}, {Num(1)}}
  /\ IdleMore

NextLoadMore == CallLoadMore \/ LoadMoreSettles \/ LoadMoreFails

\* calls of loadMore, several of them in flight at a time
SpecLoadMore == InitLoadMore /\ [][NextLoadMore]_vars

\* ------------------------------------------------ part_000: normalizeTrack
\* the values a field of a record of a response may have, besides strings
\* and numbers
Undefined == <<"undefined", <<>>>>
Null == <<"null", <<>>>>

\* t.f of an object: undefined when the object has no such property
Field(t, f) == IF f \in DOMAIN t THEN t[f] ELSE Undefined

\* a ?? b
Coalesce(a, b) == IF a[1] \in {"undefined", "null"} THEN b ELSE a

\* a || b
OrElse(a, b) == IF Truthy(a) THEN a ELSE b

\* `${v}` of a template literal
Text(v) ==
  IF v[1] = "undefined" THEN <<"u", "n", "d", "e", "f", "i", "n", "e", "d">>
  ELSE IF v[1] = "null" THEN <<"n", "u", "l", "l">>
  ELSE String(v)[2]

\* mutant of NativeOrComposite: t.id is not read and the composite is made
\* of the names the record came with
NativeOrCompositeOfAliases(t, artist, title, album) ==
  Coalesce(Field(t, "trackId"),
           Str(Text(Field(t, "artistName")) \o <<"-">>
               \o Text(Field(t, "trackName")) \o <<"-">>
               \o Text(Field(t, "collectionName"))))

\* t.trackId ?? t.id ?? `${artist}-${title}-${album}`
NativeOrComposite(t, artist, title, album) ==
  Coalesce(Field(t, "trackId"),
    Coalesce(Field(t, "id"),
             Str(Text(artist) \o <<"-">> \o Text(title) \o <<"-">>
                 \o Text(album))))

\* normalizeTrack(t); artwork, which no function below reads, is left out
normalizeTrack(t) ==
  LET title  == Coalesce(Field(t, "title"),
                  Coalesce(Field(t, "trackName"),
                    Coalesce(Field(t, "name"), Str(<<"U", "n", "k", "n", "o", "w", "n", " ", "t", "i", "t", "l", "e">>))))
      artist == Coalesce(Field(t, "artist"),
                  Coalesce(Field(t, "artistName"), Str(<<"U", "n", "k", "n", "o", "w", "n", " ", "a", "r", "t", "i", "s", "t">>)))
      album  == Coalesce(Field(t, "album"),
                  Coalesce(Field(t, "collectionName"), Str(<<"U", "n", "k", "n", "o", "w", "n", " ", "a", "l", "b", "u", "m">>)))
  IN  [id         |-> NativeOrComposite(t, artist, title, album),
       title      |-> title,
       artist     |-> artist,
       album      |-> album,
       previewUrl |-> OrElse(Field(t, "previewUrl"), Str(<<>>)),
       storeUrl   |-> OrElse(Field(t, "storeUrl"),
                        OrElse(Field(t, "trackViewUrl"),
                          OrElse(Field(t, "collectionViewUrl"),
                            OrElse(Field(t, "url"), Str(<<>>))))),
       genreName  |-> OrElse(Field(t, "primaryGenreName"),
                        OrElse(Field(t, "genre"),
                          OrElse(Field(t, "primaryGenre"),
                            OrElse(Field(t, "genreName"), Str(<<>>)))))]

\* list.map(normalizeTrack); ref is the place in the list of the record an
\* object was made of
MapNormalize(list) == [k \in 1..Len(list) |-> WithRef(normalizeTrack(list[k]), k)]

\* .filter((t) => t.title && t.artist)
NamedOnly(list) == SelectSeq(list, LAMBDA t : Truthy(t.title) /\ Truthy(t.artist))

\* the object as the functions after the filter read it: its title, artist,
\* album, urls and genre are strings
Strings(t) ==
  [f \in DOMAIN t |-> IF f \in {"id", "ref"} THEN t[f] ELSE t[f][2]]

\* list.map(normalizeTrack).filter((t) => t.title && t.artist)
NormalizedAndNamed(list) ==
  LET named == NamedOnly(MapNormalize(list))
  IN  [k \in 1..Len(named) |-> Strings(named[k])]

\* fetchTracks(genreId, seed) on a response that lists the records of list
fetchTracksOfList(r, list, seed) ==
  LET named == NormalizedAndNamed(list)
  IN  shuffleInPlace(IF r = "V1.8" THEN diversifyV18(named)
                     ELSE diversifyV114(named), seed)

\* --------------------------------------- part_000: scoreTrackRelevance
\* String.prototype.startsWith
StartsWith(s, p) == Len(p) <= Len(s) /\ SubSeq(s, 1, Len(p)) = p

\* q.split(/\s+/).filter(Boolean): the maximal runs of characters that are
\* not white space, in their order, from the i-th character on
RECURSIVE TokensFrom(_, _)
TokensFrom(q, i) ==
  LET starts == {s \in i..Len(q) : q[s] # " "}
  IN  IF starts = {} THEN <<>>
      ELSE LET s    == CHOOSE x \in starts : \A y \in starts : x <= y
               ends == {e \in s..Len(q) : e = Len(q) \/ q[e + 1] = " "}
               e    == CHOOSE x \in ends : \A y \in ends : x <= y
           IN  <<SubSeq(q, s, e)>> \o TokensFrom(q, e + 1)

Tokens(q) == TokensFrom(q, 1)

\* mutant of ArtistMatch: no bonus for the artist that equals the query
ArtistMatchNoExact(artist, q) ==
    (IF StrIncludes(artist, q) THEN 40 ELSE 0)
  + (IF StartsWith(artist, q) THEN 50 ELSE 0)

\* if (artist === q) s += 60; if (artist.includes(q)) s += 40;
\* if (artist.startsWith(q)) s += 50;
ArtistMatch(artist, q) ==
    (IF artist = q THEN 60 ELSE 0)
  + (IF StrIncludes(artist, q) THEN 40 ELSE 0)
  + (IF StartsWith(artist, q) THEN 50 ELSE 0)

\* for (const tok of tokens) { ... }, from the i-th token on
RECURSIVE TokenMatch(_, _, _, _, _)
TokenMatch(tokens, i, title, artist, album) ==
  IF i > Len(tokens) THEN 0
  ELSE   (IF StrIncludes(artist, tokens[i]) THEN 8 ELSE 0)
       + (IF StrIncludes(album, tokens[i]) THEN 6 ELSE 0)
       + (IF StrIncludes(title, tokens[i]) THEN 5 ELSE 0)
       + (IF StartsWith(artist, tokens[i]) THEN 4 ELSE 0)
       + (IF StartsWith(title, tokens[i]) THEN 3 ELSE 0)
       + TokenMatch(tokens, i + 1, title, artist, album)

\* scoreTrackRelevance(t, term)
scoreTrackRelevance(t, trm) ==
  LET q      == Trim(ToLowerCase(trm))
      title  == ToLowerCase(t.title)
      artist == ToLowerCase(t.artist)
      album  == ToLowerCase(t.album)
  IN  IF q = <<>> THEN 0
      ELSE   ArtistMatch(artist, q)
           + (IF StrIncludes(title \o <<" ">> \o artist, q) THEN 18 ELSE 0)
           + (IF StrIncludes(album, q) THEN 14 ELSE 0)
           + TokenMatch(Tokens(q), 1, title, artist, album)
           + (IF t.previewUrl # <<>> THEN 1 ELSE 0)
           + (IF t.storeUrl # <<>> THEN 1 ELSE 0)

\* ------------------------------------------ part_000: fetchSearchTracks
\* the loop over normalized that keeps the first object of every trackKey
RECURSIVE FirstOfKey(_, _, _, _)
FirstOfKey(list, i, seen, out) ==
  IF i > Len(list) THEN out
  ELSE IF trackKey(list[i]) \in seen
       THEN FirstOfKey(list, i + 1, seen, out)
       ELSE FirstOfKey(list, i + 1, seen \cup {trackKey(list[i])},
                       Append(out, list[i]))

\* filtered.sort((a, b) => scoreTrackRelevance(b, term) - scoreTrackRelevance(a, term))
SortByRelevance(filtered, trm) ==
  LET scored == [k \in 1..Len(filtered) |->
                   [it |-> filtered[k],
                    score |-> scoreTrackRelevance(filtered[k], trm)]]
      sorted == SortByScore(scored, Len(scored))
  IN  [k \in 1..Len(sorted) |-> sorted[k].it]

\* .slice(0, 60)
SEARCH_LIMIT == 60

\* what fetchSearchTracks hands to diversify: deduped in V1.8, the sorted
\* filtered in V1.14; merged is the concatenation of the chunks of the tries
\* (a try that fails adds nothing)
SearchCandidates(r, merged, trm) ==
  LET deduped == FirstOfKey(NormalizedAndNamed(merged), 1, {}, <<>>)
  IN  IF r = "V1.8" THEN deduped
      ELSE SortByRelevance(KaraokeStage(deduped), trm)

\* fetchSearchTracks(term, seed) of V1.8, fetchSearchTracks(term) of V1.14
fetchSearchTracks(r, merged, trm, seed) ==
  LET cands == SearchCandidates(r, merged, trm)
  IN  IF r = "V1.8" THEN shuffleInPlace(diversifyV18(cands), seed)
      ELSE SubSeq(diversifyV114(cands), 1,
                  Min(SEARCH_LIMIT, Len(diversifyV114(cands))))

\* ------------------------------------ the responses and the calls on them
\* how many records a response lists
MaxRaw == 2

\* the records a response may list: of the store (trackId, trackName,
\* artistName, collectionName), of the backend (id, title, artist, album),
\* without a native id, without any name, with empty names, with a null
RawPool ==
  << [trackId |-> Num(1), trackName |-> Str(<<"H", "i", "t">>),
      artistName |-> Str(<<"D", "r", "a", "k", "e">>), collectionName |-> Str(<<"L", "P">>),
      previewUrl |-> Str(<<"u">>)],
     [id |-> Str(<<"7">>), title |-> Str(<<"H", "i", "t">>), artist |-> Str(<<"D", "r", "a", "k", "e">>),
      album |-> Str(<<"L", "P">>)],
     [title |-> Str(<<"H", "i", "t">>), artist |-> Str(<<"D", "r", "i", "z", "z", "y", " ", "D", "r", "a", "k", "e">>),
      album |-> Str(<<"L", "P">>)],
     [collectionName |-> Str(<<"L", "P">>)],
     [trackId |-> Num(5), title |-> Str(<<>>), artist |-> Str(<<>>)],
     [trackId |-> Num(6), title |-> Null,
      trackName |-> Str(<<"K", "a", "r", "a", "o", "k", "e", " ", "H", "i", "t">>), artistName |-> Str(<<"B", "a", "n", "d">>)] >>

\* s repeated n times
RECURSIVE Repeated(_, _)
Repeated(s, n) == IF n = 0 THEN <<>> ELSE s \o Repeated(s, n - 1)

\* the queries: one word, and "a ab ab ... ab" of 28 and of 29 tokens
Queries ==
  { <<"D", "r", "a", "k", "e">>,
    <<"a">> \o Repeated(<<" ", "a", "b">>, 27),
    <<"a">> \o Repeated(<<" ", "a", "b">>, 28) }

SearchSeeds == {<<0, 1>>, <<0, 12345>>}

\* the backend lists one more record
ListRecord ==
  /\ nop = "build"
  /\ Len(rawList) < MaxRaw
  /\ \E k \in 1..Len(RawPool) : rawList' = Append(rawList, RawPool[k])
  /\ UNCHANGED <<term, normRev, normalized, renormalized, tracksOut,
                 candidates, searchOut, nop>>
  /\ UNCHANGED butSearch

\* fetchTracks(genreId, seed) on the response
CallFetchTracksOfList ==
  /\ nop = "build"
  /\ \E r \in Revisions, seed \in SearchSeeds :
       /\ normRev' = r
       /\ normalized' = MapNormalize(rawList)
       /\ tracksOut' = fetchTracksOfList(r, rawList, seed)
  /\ nop' = "fetched"
  /\ UNCHANGED <<rawList, term, renormalized, candidates, searchOut>>
  /\ UNCHANGED butSearch

\* fetchSearchTracks(term, seed) on the merged chunks
CallFetchSearchTracks ==
  /\ nop = "build"
  /\ \E r \in Revisions, trm \in Queries, seed \in SearchSeeds :
       /\ normRev' = r
       /\ term' = trm
       /\ normalized' = MapNormalize(rawList)
       /\ candidates' = SearchCandidates(r, rawList, trm)
       /\ searchOut' = fetchSearchTracks(r, rawList, trm, seed)
  /\ nop' = "searched"
  /\ UNCHANGED <<rawList, renormalized, tracksOut>>
  /\ UNCHANGED butSearch

\* normalizeTrack on the objects it returned (a response that lists tracks
\* already normalized)
NormalizeAgain ==
  /\ nop \in {"fetched", "searched"}
  /\ normalized # <<>>
  /\ renormalized = <<>>
  /\ renormalized' = [k \in 1..Len(normalized) |-> normalizeTrack(normalized[k])]
  /\ UNCHANGED <<rawList, term, normRev, normalized, tracksOut, candidates,
                 searchOut, nop>>
  /\ UNCHANGED butSearch

InitSearch == IdleDiv /\ IdleFeed /\ IdleSeeds /\ IdleFetch /\ IdleRest

NextSearch ==
  \/ ListRecord
  \/ CallFetchTracksOfList
  \/ CallFetchSearchTracks
  \/ NormalizeAgain

\* fetchTracks and fetchSearchTracks on every response of up to MaxRaw
\* records of the pool
SpecSearch == InitSearch /\ [][NextSearch]_vars

\* ------------------------- what the feed functions leave in their arguments
\* how many tracks the caller's array holds
MaxOwn == 3

\* the k-th track of the caller: artists A, B, C, ...; the second a karaoke
\* title
OwnTrack(k) == WithRef(NewTrack(k, IF k = 2 THEN "karaoke" ELSE "clean"), k)

\* the reactions the caller has recorded: none, or a dislike of the first
\* track, a like of the second and a play of the third on the first day
OwnPrefSamples(r) ==
  { [disliked |-> {}, likedDates |-> EmptyObj, playedDates |-> EmptyObj,
     cutoff |-> FirstDay - CooldownDays(r)],
    [disliked |-> {trackKey(OwnTrack(1))},
     likedDates |-> ObjSet(EmptyObj, PropKey(trackKey(OwnTrack(2))), FirstDay),
     playedDates |-> ObjSet(EmptyObj, PropKey(trackKey(OwnTrack(3))), FirstDay),
     cutoff |-> FirstDay - CooldownDays(r)] }

\* mutant of ItemsAfterBias: the sort is applied to items itself
ItemsAfterBiasSortedInPlace(its, liked, disliked) ==
  HandedToDiversify(its, liked, disliked)

\* items after biasAndDiversify(items, {likedArtists, dislikedArtists}):
\* items.map makes the array scored, scored.sort sorts that array, and
\* diversify reads items with for...of and includes: items is as it was
ItemsAfterBias(its, liked, disliked) == its

\* items after diversify(items, {...}): the function pushes on result only
ItemsAfterDiversify(its) == its

\* arr after applyGlobalFilters(arr, ids): every stage is arr.filter or a
\* filter of a filtered list, which makes a new array
ArrAfterFilters(arr) == arr

\* the caller puts one more track in its array
OwnOneMore ==
  /\ cop = "build"
  /\ Len(ownItems) < MaxOwn
  /\ \E k \in 1..MaxOwn : ownItems' = Append(ownItems, OwnTrack(k))
  /\ UNCHANGED <<ownLiked, ownDisliked, ownPrefs, returned, cop>>
  /\ UNCHANGED butCaller

\* the caller records reactions
OwnReactions ==
  /\ cop = "build"
  /\ ownPrefs.cutoff = 0
  /\ \E r \in Revisions : ownPrefs' \in OwnPrefSamples(r)
  /\ \E L \in {{}, {<<"c">>}, {<<"b">>, <<"c">>}}, D \in {{}, {<<"a">>}} :
       /\ ownLiked' = L
       /\ ownDisliked' = D
  /\ UNCHANGED <<ownItems, returned, cop>>
  /\ UNCHANGED butCaller

\* result = diversify(ownItems, { maxPerArtist: 2, cooldown: 3, target })
CallerDiversify ==
  /\ cop = "build"
  /\ \E tgt \in 0..(MaxOwn + 1) :
       returned' = [array |-> "new",
                    elems |-> diversify(ownItems, BIAS_MAX_PER_ARTIST,
                                        BIAS_COOLDOWN, tgt)]
  /\ ownItems' = ItemsAfterDiversify(ownItems)
  /\ cop' = "diversify"
  /\ UNCHANGED <<ownLiked, ownDisliked, ownPrefs>>
  /\ UNCHANGED butCaller

\* result = biasAndDiversify(ownItems, { likedArtists, dislikedArtists, target })
CallerBiasAndDiversify ==
  /\ cop = "build"
  /\ \E tgt \in 1..(MaxOwn + 1) :
       returned' = [array |-> "new",
                    elems |-> biasAndDiversify(ownItems, ownLiked,
                                               ownDisliked, tgt)]
  /\ ownItems' = ItemsAfterBias(ownItems, ownLiked, ownDisliked)
  /\ cop' = "biasAndDiversify"
  /\ UNCHANGED <<ownLiked, ownDisliked, ownPrefs>>
  /\ UNCHANGED butCaller

\* result = applyGlobalFilters(ownItems, ids), of either revision
CallerApplyGlobalFilters ==
  /\ cop = "build"
  /\ ownPrefs.cutoff # 0
  /\ \E ids \in {<<>>, <<GENRE_FALLBACK>>} :
       returned' =
         [array |-> "new",
          elems |-> applyGlobalFilters(
                      IF ownPrefs.cutoff = FirstDay - CooldownDays("V1.8")
                        THEN "V1.8" ELSE "V1.14",
                      ownItems, ids, ownPrefs)]
  /\ ownItems' = ArrAfterFilters(ownItems)
  /\ cop' = "applyGlobalFilters"
  /\ UNCHANGED <<ownLiked, ownDisliked, ownPrefs>>
  /\ UNCHANGED butCaller

InitCallers == IdleDiv /\ IdleFeed /\ IdleSeeds /\ IdleFetch /\ IdleRest

NextCallers ==
  \/ OwnOneMore
  \/ OwnReactions
  \/ CallerDiversify
  \/ CallerBiasAndDiversify
  \/ CallerApplyGlobalFilters

\* one call of a feed function on every array and every reaction of the
\* caller within the bounds
SpecCallers == InitCallers /\ [][NextCallers]_vars

\* ------------------------------------------------------------- fetchGenres
\* const OMIT_GENRE_IDS = new Set([16, 1310, 1259])
OMIT_GENRE_IDS == {16, 1310, 1259}

NaN == <<"NaN", 0>>

\* the value of a string of decimal digits
RECURSIVE ParseDecimal(_)
ParseDecimal(s) ==
  IF s = <<>> THEN 0
  ELSE 10 * ParseDecimal(SubSeq(s, 1, Len(s) - 1))
       + (CHOOSE d \in 0..9 : Digits[d + 1] = s[Len(s)])

\* Number(v) of a number, of a string (white space around decimal digits is
\* skipped, the empty string is 0, any other string is NaN), of undefined
\* and of null
Number(v) ==
  IF v[1] = "number" THEN v
  ELSE IF v[1] = "undefined" THEN NaN
  ELSE IF v[1] = "null" THEN Num(0)
  ELSE IF \A i \in 1..Len(Trim(v[2])) :
            \E d \in 1..10 : Digits[d] = Trim(v[2])[i]
       THEN Num(ParseDecimal(Trim(v[2])))
       ELSE NaN

\* mutant of Omitted: the id is looked up as it is, not as a number
OmittedAsIs(g) == g.id[1] = "number" /\ g.id[2] \in OMIT_GENRE_IDS

\* OMIT_GENRE_IDS.has(Number(g?.id))
Omitted(g) == Number(g.id)[1] = "number" /\ Number(g.id)[2] \in OMIT_GENRE_IDS

\* DEFAULT_GENRES as fetchGenres returns it
DefaultGenres(r) ==
  LET table == IF r = "V1.8" THEN DEFAULT_GENRES ELSE DEFAULT_GENRES_V114
  IN  [k \in 1..Len(table) |-> [id |-> Num(table[k].id), name |-> table[k].name]]

\* the list at the end of fetchGenres of App.js (name and id of each entry)
APP_FALLBACK_GENRES ==
  << [id |-> Str(<<"2", "0">>), name |-> <<"A", "l", "t", "e", "r", "n", "a", "t", "i", "v", "e">>],
     [id |-> Str(<<"6">>), name |-> <<"C", "o", "u", "n", "t", "r", "y">>],
     [id |-> Str(<<"1", "4">>), name |-> <<"P", "o", "p">>],
     [id |-> Str(<<"2", "1">>), name |-> <<"R", "o", "c", "k">>],
     [id |-> Str(<<"1", "5">>), name |-> <<"R", "&", "B", "/", "S", "o", "u", "l">>],
     [id |-> Str(<<"1", "8">>), name |-> <<"H", "i", "p", "-", "H", "o", "p", "/", "R", "a", "p">>] >>

\* /hip.?hop|rap/i.test(n), n in lower case
HipHopOrRap(n) ==
  \/ StrIncludes(n, <<"r", "a", "p">>)
  \/ \E i \in 1..(Len(n) - 2) :
       /\ SubSeq(n, i, i + 2) = <<"h", "i", "p">>
       /\ \/ (i + 5 <= Len(n) /\ SubSeq(n, i + 3, i + 5) = <<"h", "o", "p">>)
          \/ (i + 6 <= Len(n) /\ SubSeq(n, i + 4, i + 6) = <<"h", "o", "p">>)

\* POPULAR_ORDER[i].test(n), n in lower case
PopularTest(i, n) ==
  CASE i = 0  -> StrIncludes(n, <<"p", "o", "p">>)
    [] i = 1  -> HipHopOrRap(n)
    [] i = 2  -> StrIncludes(n, <<"r", "o", "c", "k">>)
    [] i = 3  -> StrIncludes(n, <<"m", "e", "t", "a", "l">>)
    [] i = 4  -> StrIncludes(n, <<"i", "n", "d", "i", "e">>)
    [] i = 5  -> StrIncludes(n, <<"a", "l", "t", "e", "r", "n", "a", "t", "i", "v", "e">>)
    [] i = 6  -> StrIncludes(n, <<"e", "l", "e", "c", "t", "r", "o", "n", "i", "c">>) \/ StrIncludes(n, <<"d", "a", "n", "c", "e">>)
    [] i = 7  -> StrIncludes(n, <<"r", "&", "b">>) \/ StrIncludes(n, <<"s", "o", "u", "l">>)
    [] i = 8  -> StrIncludes(n, <<"l", "a", "t", "i", "n">>)
    [] i = 9  -> StrIncludes(n, <<"c", "o", "u", "n", "t", "r", "y">>)
    [] i = 10 -> StrIncludes(n, <<"j", "a", "z", "z">>)
    [] i = 11 -> StrIncludes(n, <<"b", "l", "u", "e", "s">>)
    [] i = 12 -> StrIncludes(n, <<"s", "o", "u", "n", "d", "t", "r", "a", "c", "k">>)

\* score(name): the index of the first pattern of POPULAR_ORDER that
\* matches, POPULAR_ORDER.length + 1 when none does
PopularScore(name) ==
  LET n    == ToLowerCase(name)
      hits == {i \in 0..12 : PopularTest(i, n)}
  IN  IF hits = {} THEN 14 ELSE CHOOSE i \in hits : \A j \in hits : i <= j

\* map.set(String(g.id), g) on the Map as the sequence of its values, in
\* the order of insertion
MapSet(values, g) ==
  IF \E k \in 1..Len(values) : String(values[k].id) = String(g.id)
  THEN [k \in 1..Len(values) |->
          IF String(values[k].id) = String(g.id) THEN g ELSE values[k]]
  ELSE Append(values, g)

\* for (const g of arr) map.set(String(g.id), g), from the i-th genre on
RECURSIVE MapSetAll(_, _, _)
MapSetAll(values, arr, i) ==
  IF i > Len(arr) THEN values
  ELSE MapSetAll(MapSet(values, arr[i]), arr, i + 1)

\* merged.sort((a, b) => score(a?.name) - score(b?.name)), a stable sort
RECURSIVE InsertByPopularity(_, _)
InsertByPopularity(sorted, g) ==
  IF sorted = <<>> THEN <<g>>
  ELSE IF PopularScore(Head(sorted).name) - PopularScore(g.name) > 0
       THEN <<g>> \o sorted
       ELSE <<Head(sorted)>> \o InsertByPopularity(Tail(sorted), g)

RECURSIVE SortByPopularity(_, _)
SortByPopularity(merged, n) ==
  IF n = 0 THEN <<>>
  ELSE InsertByPopularity(SortByPopularity(merged, n - 1), merged[n])

\* the merge of V1.14: the defaults, the genres of the server over them,
\* Metal if no name has it, sorted
MergedGenres(arr) ==
  LET map      == MapSetAll(DefaultGenres("V1.14"), arr, 1)
      hasMetal == \E k \in 1..Len(map) :
                    StrIncludes(ToLowerCase(map[k].name), <<"m", "e", "t", "a", "l">>)
      ensured  == IF hasMetal THEN map
                  ELSE MapSet(map, [id |-> Num(1153), name |-> <<"M", "e", "t", "a", "l">>])
  IN  SortByPopularity(ensured, Len(ensured))

\* the body of the try block: what it returns, <<"throw">> when fetch
\* rejects, the status is not ok or json() rejects, <<"none">> when App.js
\* leaves the block without a return.  ans is what the backend did: "failed"
\* (no response), "status" (not ok), "unparsable" (no JSON), "shape" (JSON
\* that holds no array where the function looks for one), "list"
TryBlock(r, ans, list) ==
  LET arr == IF ans = "list" THEN list ELSE <<>>
      kept == SelectSeq(arr, LAMBDA g : ~Omitted(g))
  IN  IF ans \in {"failed", "status", "unparsable"} THEN <<"throw">>
      ELSE IF r = "App.js"
           THEN (IF Len(arr) # 0 THEN <<"return", arr>> ELSE <<"none">>)
      ELSE IF r = "V1.8"
           THEN <<"return", IF Len(kept) # 0 THEN kept ELSE DefaultGenres(r)>>
      ELSE <<"return", IF Len(kept) = 0 THEN DefaultGenres(r)
                       ELSE MergedGenres(kept)>>

\* fetchGenres(): the try block, the catch, and the list after them
fetchGenres(r, ans, list) ==
  LET body == TryBlock(r, ans, list)
  IN  IF body[1] = "return" THEN [outcome |-> "returned", list |-> body[2]]
      ELSE IF r = "App.js"
           THEN [outcome |-> "returned", list |-> APP_FALLBACK_GENRES]
           ELSE [outcome |-> "returned", list |-> DefaultGenres(r)]

\* how many genres the backend lists
MaxGenres == 2

\* the genres a backend may list: Rock, Reggae with the id as a string,
\* K-Pop, and a genre no table has
GenrePool ==
  << [id |-> Num(21), name |-> <<"R", "o", "c", "k">>],
     [id |-> Str(<<"1", "6">>), name |-> <<"R", "e", "g", "g", "a", "e">>],
     [id |-> Num(1310), name |-> <<"K", "-", "P", "o", "p">>],
     [id |-> Str(<<"1", "1", "2", "2">>), name |-> <<"I", "n", "d", "i", "e", " ", "P", "o", "p">>] >>

GenreRevisions == {"App.js", "V1.8", "V1.14"}

Answers == {"failed", "status", "unparsable", "shape", "list"}

\* the backend has one more genre to list
ListGenre ==
  /\ gop = "build"
  /\ Len(genreList) < MaxGenres
  /\ \E k \in 1..Len(GenrePool) : genreList' = Append(genreList, GenrePool[k])
  /\ UNCHANGED <<genreRev, answer, genresOut, gop>>
  /\ UNCHANGED butGenre

\* gs = await fetchGenres()
CallFetchGenres ==
  /\ gop = "build"
  /\ \E r \in GenreRevisions, ans \in Answers :
       /\ genreRev' = r
       /\ answer' = ans
       /\ genresOut' = fetchGenres(r, ans, genreList)
  /\ gop' = "done"
  /\ UNCHANGED genreList
  /\ UNCHANGED butGenre

InitGenres == IdleDiv /\ IdleFeed /\ IdleSeeds /\ IdleFetch /\ IdleRest

NextGenres == ListGenre \/ CallFetchGenres

\* fetchGenres against every answer of the backend within the bounds
SpecGenres == InitGenres /\ [][NextGenres]_vars

\* ------------------------------------------------- apps/api/api/log.ts
\* a JSON object with the properties of fields
Obj(fields) == <<"object", fields>>

\* e.f of an event
Prop(e, f) == Field(e[2], f)

\* mutant of KeepsEvent: e.ts is not tested
KeepsEventWithType(e) ==
  /\ e[1] = "object"
  /\ Truthy(Prop(e, "type"))

\* .filter((e) => e && e.type && e.ts)
KeepsEvent(e) ==
  /\ e[1] = "object"
  /\ Truthy(Prop(e, "type"))
  /\ Truthy(Prop(e, "ts"))

\* .map((e) => ({ user_id, session_id, type: String(e.type),
\*   track_id: e.track_id ? String(e.track_id) : null, ts: Number(e.ts),
\*   payload: e }))
RowOf(e, user_id, session_id) ==
  [user_id    |-> user_id,
   session_id |-> session_id,
   type       |-> String(Prop(e, "type")),
   track_id   |-> IF Truthy(Prop(e, "track_id"))
                  THEN String(Prop(e, "track_id")) ELSE Null,
   ts         |-> Number(Prop(e, "ts")),
   payload    |-> e]

\* const rows = events.filter(...).map(...)
RowsOf(events, user_id, session_id) ==
  LET kept == SelectSeq(events, KeepsEvent)
  IN  [k \in 1..Len(kept) |-> RowOf(kept[k], user_id, session_id)]

\* const { session_id, user_id = null, device = {}, events = [] } = req.body || {}
BodyOf(req) ==
  [session_id |-> Field(req.body, "session_id"),
   user_id    |-> IF Field(req.body, "user_id") = Undefined THEN Null
                  ELSE Field(req.body, "user_id"),
   events     |-> IF Field(req.body, "events") = Undefined
                  THEN <<"array", <<>>>> ELSE Field(req.body, "events")]

\* the handler up to its first await: the response of a request it rejects,
\* status 0 and the rows for one it takes to the database
Validated(req) ==
  LET wantAuth == Truthy(req.ingestKey)
      okAuth   == ~wantAuth \/ req.header = req.ingestKey
      b        == BodyOf(req)
      made     == RowsOf(b.events[2], b.user_id, b.session_id)
  IN  IF req.method # "POST"
        THEN [status |-> 405, error |-> "", rows |-> <<>>]
      ELSE IF ~okAuth
        THEN [status |-> 401, error |-> "unauthorized", rows |-> <<>>]
      ELSE IF ~Truthy(b.session_id) \/ b.events[1] # "array"
        THEN [status |-> 400, error |-> "bad payload", rows |-> <<>>]
      ELSE IF Len(made) = 0
        THEN [status |-> 400, error |-> "no valid events", rows |-> <<>>]
      ELSE [status |-> 0, error |-> "", rows |-> made]

\* mutant of Inserted: the insert is sent with sql, outside the transaction
InsertedWithSql(tbl, tx, r) == [table |-> Append(tbl, r), tx |-> tx]

\* await t`insert into public.events ...`: a write of the transaction t
Inserted(tbl, tx, r) == [table |-> tbl, tx |-> Append(tx, r)]

\* sql.begin(fn) when fn has ended: COMMIT makes the writes of the
\* transaction part of the table when fn resolved, ROLLBACK discards them
\* when it threw (and begin rejects with what it threw)
Begun(tbl, tx, resolved) == IF resolved THEN tbl \o tx ELSE tbl

\* how many events a batch holds
MaxEvents == 2

\* the events of a batch: a like, an event without type, one without ts,
\* one with ts 0, and null
EventSamples ==
  { Obj([type |-> Str(<<"l", "i", "k", "e">>), ts |-> Num(5), track_id |-> Str(<<"t">>)]),
    Obj([ts |-> Num(5)]),
    Obj([type |-> Str(<<"p", "l", "a", "y">>)]),
    Obj([type |-> Str(<<"p", "l", "a", "y">>), ts |-> Num(0)]),
    Null }

RECURSIVE SeqsUpTo(_, _)
SeqsUpTo(S, n) ==
  IF n = 0 THEN {<<>>}
  ELSE SeqsUpTo(S, n - 1)
       \cup {Append(s, x) : s \in {t \in SeqsUpTo(S, n - 1) : Len(t) = n - 1}, x \in S}

\* the bodies of a request: with and without session_id, with events that
\* are an array, a string, or missing
Bodies ==
  { [session_id |-> Str(<<"s">>), events |-> <<"array", es>>] :
      es \in SeqsUpTo(EventSamples, MaxEvents) }
  \cup { [events |-> <<"array", <<es>>>>] : es \in EventSamples }
  \cup { [session_id |-> Str(<<"s">>), events |-> Str(<<"x">>)],
         [session_id |-> Str(<<"s">>)] }

Requests ==
  [method : {"POST", "GET"}, ingestKey : {Undefined, Str(<<"k">>)},
   header : {Undefined, Str(<<"k">>), Str(<<"x">>)}, body : Bodies]

\* a request arrives and the handler runs to its first await
HandlerStart ==
  /\ lop = "idle"
  /\ \E req \in Requests :
       /\ request' = req
       /\ rows' = Validated(req).rows
       /\ response' = [status |-> Validated(req).status,
                       error |-> Validated(req).error]
       /\ lop' = IF Validated(req).status = 0 THEN "transaction"
                 ELSE "responded"
  /\ UNCHANGED <<cursor, txWrites, eventsTable>>
  /\ UNCHANGED butLog

\* one turn of the loop: the insert of the next row resolves
InsertResolves ==
  /\ lop = "transaction"
  /\ cursor < Len(rows)
  /\ txWrites' = Inserted(eventsTable, txWrites, rows[cursor + 1]).tx
  /\ eventsTable' = Inserted(eventsTable, txWrites, rows[cursor + 1]).table
  /\ cursor' = cursor + 1
  /\ UNCHANGED <<request, rows, response, lop>>
  /\ UNCHANGED butLog

\* the insert of the next row rejects: the callback throws and sql.begin
\* rejects
InsertRejects ==
  /\ lop = "transaction"
  /\ cursor < Len(rows)
  /\ eventsTable' = Begun(eventsTable, txWrites, FALSE)
  /\ txWrites' = <<>>
  /\ lop' = "rejected"
  /\ UNCHANGED <<request, rows, cursor, response>>
  /\ UNCHANGED butLog

\* the loop has ended: the callback resolves and sql.begin commits
CallbackResolves ==
  /\ lop = "transaction"
  /\ cursor = Len(rows)
  /\ eventsTable' = Begun(eventsTable, txWrites, TRUE)
  /\ txWrites' = <<>>
  /\ lop' = "committed"
  /\ UNCHANGED <<request, rows, cursor, response>>
  /\ UNCHANGED butLog

\* return res.status(204).end()
RespondNoContent ==
  /\ lop = "committed"
  /\ response' = [status |-> 204, error |-> ""]
  /\ lop' = "responded"
  /\ UNCHANGED <<request, rows, cursor, txWrites, eventsTable>>
  /\ UNCHANGED butLog

\* catch (err): return res.status(500).json({ error: "insert_failed" })
RespondInsertFailed ==
  /\ lop = "rejected"
  /\ response' = [status |-> 500, error |-> "insert_failed"]
  /\ lop' = "responded"
  /\ UNCHANGED <<request, rows, cursor, txWrites, eventsTable>>
  /\ UNCHANGED butLog

InitLog == IdleDiv /\ IdleFeed /\ IdleSeeds /\ IdleFetch /\ IdleRest

NextLog ==
  \/ HandlerStart
  \/ InsertResolves
  \/ InsertRejects
  \/ CallbackResolves
  \/ RespondNoContent
  \/ RespondInsertFailed

\* the handler on every request within the bounds, every insert of which
\* may fail
SpecLog == InitLog /\ [][NextLog]_vars

\* --------------------------------------------------------- App.js: playItem
\* how many calls of playItem overlap
MaxCalls == 2

PlayCalls == 1..MaxCalls

\* soundRef.current = null
NoSound == 0 - 1

\* the sounds: sound 0 plays when the first call starts, sound c is the one
\* Audio.Sound.createAsync makes for call c
Silent == [loaded |-> FALSE, playing |-> FALSE]

\* sound.stopAsync() resolves on a loaded sound, which then does not play,
\* and rejects on one that is not loaded
Stopped(snd, s) ==
  IF snd[s].loaded THEN [snd EXCEPT ![s].playing = FALSE] ELSE snd

\* sound.unloadAsync() resolves: the sound is not loaded and does not play
Unloaded(snd, s) == [snd EXCEPT ![s] = Silent]

\* Audio.Sound.createAsync({ uri }, { shouldPlay: true, ... }) resolves
Created(snd, s) == [snd EXCEPT ![s] = [loaded |-> TRUE, playing |-> TRUE]]

\* the call goes on after the first try block: it returns when the item has
\* no previewUrl and calls createAsync when it has one
AfterFirstTry(p) ==
  IF p.url THEN [p EXCEPT !.pc = "creating"] ELSE [p EXCEPT !.pc = "done"]

\* const myToken = ++playTokenRef.current; if (soundRef.current) { await
\* soundRef.current.stopAsync(); ...
CallPlayItem(c) ==
  /\ plays[c].pc = "idle"
  /\ \A d \in PlayCalls : d < c => plays[d].pc # "idle"
  /\ playTokenRef' = playTokenRef + 1
  /\ \E url \in BOOLEAN :
       LET p == [plays[c] EXCEPT !.token = playTokenRef + 1, !.url = url]
       IN  plays' = [plays EXCEPT ![c] =
                       IF soundRef # NoSound
                       THEN [p EXCEPT !.pc = "stopping", !.on = soundRef]
                       ELSE AfterFirstTry(p)]
  /\ UNCHANGED <<soundRef, sounds>>
  /\ UNCHANGED butPlay

\* stopAsync has settled; await soundRef.current.unloadAsync() is next,
\* unless stopAsync rejected or soundRef.current is null by now (a
\* TypeError): then catch {} ends the try block
StopSettles(c) ==
  /\ plays[c].pc = "stopping"
  /\ sounds' = Stopped(sounds, plays[c].on)
  /\ plays' = [plays EXCEPT ![c] =
                 IF sounds[plays[c].on].loaded /\ soundRef # NoSound
                 THEN [plays[c] EXCEPT !.pc = "unloading", !.on = soundRef]
                 ELSE AfterFirstTry(plays[c])]
  /\ UNCHANGED <<playTokenRef, soundRef>>
  /\ UNCHANGED butPlay

\* unloadAsync has resolved; soundRef.current = null
UnloadSettles(c) ==
  /\ plays[c].pc = "unloading"
  /\ sounds' = Unloaded(sounds, plays[c].on)
  /\ soundRef' = NoSound
  /\ plays' = [plays EXCEPT ![c] = AfterFirstTry(plays[c])]
  /\ UNCHANGED playTokenRef
  /\ UNCHANGED butPlay

\* createAsync has resolved: if (myToken !== playTokenRef.current) { try {
\* await sound.stopAsync() ... } else soundRef.current = sound
CreateResolves(c) ==
  /\ plays[c].pc = "creating"
  /\ sounds' = Created(sounds, c)
  /\ IF plays[c].token # playTokenRef
     THEN /\ plays' = [plays EXCEPT ![c].pc = "discarding", ![c].on = c]
          /\ UNCHANGED soundRef
     ELSE /\ soundRef' = c
          /\ plays' = [plays EXCEPT ![c].pc = "done"]
  /\ UNCHANGED playTokenRef
  /\ UNCHANGED butPlay

\* createAsync has rejected: catch (e) { console.warn(...) }
CreateRejects(c) ==
  /\ plays[c].pc = "creating"
  /\ plays' = [plays EXCEPT ![c].pc = "done"]
  /\ UNCHANGED <<playTokenRef, soundRef, sounds>>
  /\ UNCHANGED butPlay

\* the stopAsync of the sound the call made too late has settled;
\* await sound.unloadAsync() is next
DiscardStopSettles(c) ==
  /\ plays[c].pc = "discarding"
  /\ sounds' = Stopped(sounds, plays[c].on)
  /\ plays' = [plays EXCEPT ![c].pc = "discardingUnload"]
  /\ UNCHANGED <<playTokenRef, soundRef>>
  /\ UNCHANGED butPlay

\* the unloadAsync of that sound has settled; return
DiscardUnloadSettles(c) ==
  /\ plays[c].pc = "discardingUnload"
  /\ sounds' = Unloaded(sounds, plays[c].on)
  /\ plays' = [plays EXCEPT ![c].pc = "done"]
  /\ UNCHANGED <<playTokenRef, soundRef>>
  /\ UNCHANGED butPlay

\* no call has started; a sound of an earlier call plays, or none does
InitPlayback ==
  /\ IdleDiv /\ IdleFeed /\ IdleSeeds /\ IdleFetch
  /\ dlist = <<>> /\ dout = <<>> /\ dtwice = <<>> /\ dop = "build"
  /\ appTracks = <<>> /\ loads = <<>> /\ likesRef = {} /\ dislikesRef = {}
  /\ IdleSearch /\ IdleCaller /\ IdleGenres /\ IdleLog /\ IdleReact /\ IdleOpinion /\ IdleScreen /\ IdleAuth /\ IdleShuf
  /\ playTokenRef = 0
  /\ \E first \in BOOLEAN :
       /\ soundRef = IF first THEN 0 ELSE NoSound
       /\ sounds = [s \in 0..MaxCalls |->
                      IF s = 0 /\ first
                      THEN [loaded |-> TRUE, playing |-> TRUE] ELSE Silent]
  /\ plays = [c \in PlayCalls |->
                [pc |-> "idle", token |-> 0, on |-> NoSound, url |-> FALSE]]

NextPlayback ==
  \E c \in PlayCalls :
    \/ CallPlayItem(c)
    \/ StopSettles(c)
    \/ UnloadSettles(c)
    \/ CreateResolves(c)
    \/ CreateRejects(c)
    \/ DiscardStopSettles(c)
    \/ DiscardUnloadSettles(c)

\* calls of playItem that overlap, each suspended at its awaits for as long
\* as the operation it waits for takes
SpecPlayback == InitPlayback /\ [][NextPlayback]_vars

\* ------------------------------------------------- App.js: the reactions
\* delete obj[k]
ObjDelete(obj, k) == [x \in (DOMAIN obj) \ {k} |-> obj[x]]

\* nextLikedItems[id] = { id, title: itemMeta.title, ... }
KeptItem(id, itemMeta) ==
  [id |-> id, title |-> itemMeta.title, artist |-> itemMeta.artist,
   album |-> itemMeta.album]

\* setReaction that leaves the other Set alone
setReactionOneSided(refs, id, type, itemMeta) ==
  IF type = "like"
  THEN [likes      |-> refs.likes \cup {id},
        dislikes   |-> refs.dislikes,
        likedItems |-> IF itemMeta.given
                       THEN ObjSet(refs.likedItems, PropKey(id),
                                   KeptItem(id, itemMeta.item))
                       ELSE refs.likedItems]
  ELSE [likes      |-> refs.likes \ {id},
        dislikes   |-> IF type = "dislike" THEN refs.dislikes \cup {id}
                       ELSE refs.dislikes,
        likedItems |-> ObjDelete(refs.likedItems, PropKey(id))]

\* setReaction(id, type, itemMeta) on the three refs: what it leaves in
\* them (and hands to setLikes, setDislikes, setLikedItems); type is "like",
\* "dislike" or "null"
setReaction(refs, id, type, itemMeta) ==
  LET nextLikes    == refs.likes \ {id}
      nextDislikes == refs.dislikes \ {id}
  IN  IF type = "like"
      THEN [likes      |-> nextLikes \cup {id},
            dislikes   |-> nextDislikes,
            likedItems |-> IF itemMeta.given
                           THEN ObjSet(refs.likedItems, PropKey(id),
                                       KeptItem(id, itemMeta.item))
                           ELSE refs.likedItems]
      ELSE [likes      |-> nextLikes,
            dislikes   |-> IF type = "dislike" THEN nextDislikes \cup {id}
                           ELSE nextDislikes,
            likedItems |-> ObjDelete(refs.likedItems, PropKey(id))]

\* the three refs
ReactionRefs ==
  [likes |-> likesRef, dislikes |-> dislikesRef, likedItems |-> likedItemsRef]

\* the refs take what setReaction left
Reacted(after) ==
  /\ likesRef' = after.likes
  /\ dislikesRef' = after.dislikes
  /\ likedItemsRef' = after.likedItems

\* the same track listed with its id as a string
Twin(t) == [t EXCEPT !.id = Str(NumberToString(t.id[2])), !.ref = t.ref + 20]

\* the feeds the reactions run on
ReactionFeeds == { <<>>, <<Song(1), Twin(Song(1)), Song(2), Song(3)>> }

\* handleMomentumEnd, playAtIndex: currentIndexRef.current = idx
ScrollTo ==
  /\ \E idx \in 0..(Len(appTracks) - 1) :
       /\ idx # currentIndexRef
       /\ currentIndexRef' = idx
  /\ rop' = "scroll"
  /\ UNCHANGED <<likedItemsRef, likesRef, dislikesRef, appTracks, loads>>
  /\ UNCHANGED <<divVars, filterVars, seedVars, fetchVars, dedupeVars, besideReact>>

\* applySwipe(type): const item = tracks[idx]; if (!item) return;
\* setReaction(item.id, type === 'like' ? 'like' : 'dislike', item)
ApplySwipe ==
  /\ \E type \in {"like", "dislike"} :
       IF currentIndexRef + 1 \in DOMAIN appTracks
       THEN LET item == appTracks[currentIndexRef + 1]
            IN  Reacted(setReaction(ReactionRefs, item.id, type,
                                    [given |-> TRUE, item |-> item]))
       ELSE UNCHANGED <<likesRef, dislikesRef, likedItemsRef>>
  /\ rop' = "applySwipe"
  /\ UNCHANGED <<currentIndexRef, appTracks, loads>>
  /\ UNCHANGED <<divVars, filterVars, seedVars, fetchVars, dedupeVars, besideReact>>

\* toggleLike(item): setReaction(id, likesRef.current.has(id) ? null : 'like', item)
ToggleLike ==
  /\ \E k \in DOMAIN appTracks :
       LET item == appTracks[k]
       IN  Reacted(setReaction(ReactionRefs, item.id,
                               IF item.id \in likesRef THEN "null" ELSE "like",
                               [given |-> TRUE, item |-> item]))
  /\ rop' = "toggleLike"
  /\ UNCHANGED <<currentIndexRef, appTracks, loads>>
  /\ UNCHANGED <<divVars, filterVars, seedVars, fetchVars, dedupeVars, besideReact>>

\* toggleDislike(item): setReaction(id, dislikesRef.current.has(id) ? null : 'dislike', item)
ToggleDislike ==
  /\ \E k \in DOMAIN appTracks :
       LET item == appTracks[k]
       IN  Reacted(setReaction(ReactionRefs, item.id,
                               IF item.id \in dislikesRef THEN "null" ELSE "dislike",
                               [given |-> TRUE, item |-> item]))
  /\ rop' = "toggleDislike"
  /\ UNCHANGED <<currentIndexRef, appTracks, loads>>
  /\ UNCHANGED <<divVars, filterVars, seedVars, fetchVars, dedupeVars, besideReact>>

InitReactions ==
  /\ IdleDiv /\ IdleFeed /\ IdleSeeds /\ IdleFetch
  /\ dlist = <<>> /\ dout = <<>> /\ dtwice = <<>> /\ dop = "build"
  /\ appTracks \in ReactionFeeds
  /\ loads = <<>> /\ likesRef = {} /\ dislikesRef = {}
  /\ IdleMore

NextReactions == ScrollTo \/ ApplySwipe \/ ToggleLike \/ ToggleDislike

\* the reactions of App.js on a feed
SpecReactions == InitReactions /\ [][NextReactions]_vars

\* ----------------------------- part_000: likes, dislikes and the toggles
\* how many asynchronous calls the handlers of one run start
MaxTaps == 3

\* the tracks the user reacts to, and a user name
OpinionTracks == {NewTrack(n, "clean") : n \in Reactive}
UserAnn == <<"a", "n", "n">>

\* const isLikedKey = (k) => likeSet.current.has(k) || likedPersistentSetRef.current.has(k)
isLikedKey(k) == k \in likeSet \/ k \in likedPersistentSetRef

\* new Set((likedPersistent || []).map((t) => trackKey(t)))
KeysOf(list) == {trackKey(list[i]) : i \in DOMAIN list}

\* saveLiked(l): V1.8 writes under LIKED_SONGS_KEY; V1.14 writes under
\* `${LIKED_SONGS_KEY}:${u}` and nothing when no user is signed in
Saved(store, r, u, l) ==
  IF r = "V1.8" THEN ObjSet(store, <<>>, l)
  ELSE IF u = <<>> THEN store ELSE ObjSet(store, u, l)

\* setLikedPersistent(prev => { ...; saveLiked(updated); return updated }),
\* and the effect on [likedPersistent] that rebuilds likedPersistentSetRef
Persisted(updated) ==
  /\ likedPersistent' = updated
  /\ likedPersistentSetRef' = KeysOf(updated)
  /\ storedLiked' = Saved(storedLiked, rev, currentUser, updated)

ListKept == UNCHANGED <<likedPersistent, likedPersistentSetRef, storedLiked>>

DatesKept == UNCHANGED <<likedDatesRef, storedLikedDates>>

DislikesKept ==
  UNCHANGED <<dislikeSet, dislikedPersistentRef, storedDisliked, userDisliked>>

\* whether the liked list is written: always in V1.8, if (user) in V1.14
Persists == rev = "V1.8" \/ currentUser # <<>>

\* the session like, the persistent like and markLikedTimestamp:
\* addSessionLike and persistAddLike of V1.8 (without its dislike part),
\* persistAddLike of V1.14 after await getCurrentUser()
AddLike(t) ==
  LET k == trackKey(t)
  IN  /\ likeSet' = likeSet \cup {k}
      /\ IF Persists THEN Persisted(dedupeById(<<t>> \o likedPersistent))
         ELSE ListKept
      /\ likedDatesRef' = ObjSet(likedDatesRef, PropKey(k), now)
      /\ storedLikedDates' = ObjSet(likedDatesRef, PropKey(k), now)

\* removeFromLikesEverywhere(t), in V1.14 after await getCurrentUser()
RemoveLike(t) ==
  LET k == trackKey(t)
  IN  /\ likeSet' = likeSet \ {k}
      /\ IF Persists
         THEN Persisted(SelectSeq(likedPersistent, LAMBDA x : trackKey(x) # k))
         ELSE ListKept

\* the key leaves both dislike Sets (persistAddLike of V1.8, onToggleDislike)
Undislike(k) ==
  /\ dislikeSet' = dislikeSet \ {k}
  /\ dislikedPersistentRef' = dislikedPersistentRef \ {k}
  /\ storedDisliked' = IF k \in dislikedPersistentRef
                       THEN dislikedPersistentRef \ {k} ELSE storedDisliked
  /\ userDisliked' = userDisliked \ {k}

\* a call of an async function of V1.14 that stops at await getCurrentUser()
Awaiting(fn, t) ==
  /\ Len(asyncCalls) < MaxTaps
  /\ asyncCalls' = Append(asyncCalls, [fn |-> fn, t |-> t, awaits |-> TRUE])

\* the body of onLike(t)
LikeBody(t) ==
  LET k == trackKey(t)
  IN  \/ /\ rev = "V1.8"
         /\ Undislike(k)
         /\ AddLike(t)
         /\ UNCHANGED asyncCalls
      \/ /\ rev = "V1.14"
         /\ dislikeSet' = dislikeSet \ {k}
         /\ UNCHANGED <<dislikedPersistentRef, storedDisliked, userDisliked>>
         /\ Awaiting("persistAddLike", t)
         /\ UNCHANGED likeSet /\ ListKept /\ DatesKept

\* the body of onDislike(t)
DislikeBody(t) ==
  /\ DislikeEffect(t)
  /\ DatesKept
  /\ \/ /\ rev = "V1.8"
        /\ RemoveLike(t)
        /\ UNCHANGED asyncCalls
     \/ /\ rev = "V1.14"
        /\ Awaiting("removeFromLikesEverywhere", t)
        /\ UNCHANGED likeSet /\ ListKept

\* what the handlers leave alone
feedKept == <<rev, now, cutoffRef, playedDatesRef, storedPlayedDates, fetched,
              idsForTighten, tracks, launches, fop>>

opinionFrame == <<divVars, feedKept, seedVars, fetchVars, dedupeVars, loadVars,
                  besideOpinion, currentUser>>

\* the like swipe: onLike(t)
LikeSwiped ==
  /\ \E t \in OpinionTracks :
       /\ LikeBody(t)
       /\ lastOpinion' = [lastOpinion EXCEPT ![trackKey(t)] = "like"]
  /\ oop' = "onLike"
  /\ UNCHANGED opinionFrame

\* the dislike swipe: onDislike(t)
DislikeSwiped ==
  /\ \E t \in OpinionTracks :
       /\ DislikeBody(t)
       /\ lastOpinion' = [lastOpinion EXCEPT ![trackKey(t)] = "dislike"]
  /\ oop' = "onDislike"
  /\ UNCHANGED opinionFrame

\* the like button of the card: onToggleLike(t, isLikedKey(k))
LikeToggled ==
  /\ \E t \in OpinionTracks :
       LET k == trackKey(t)
       IN  IF isLikedKey(k)
           THEN /\ \/ /\ rev = "V1.8"
                      /\ RemoveLike(t)
                      /\ UNCHANGED asyncCalls
                   \/ /\ rev = "V1.14"
                      /\ Awaiting("removeFromLikesEverywhere", t)
                      /\ UNCHANGED likeSet /\ ListKept
                /\ DislikesKept /\ DatesKept
                /\ lastOpinion' = [lastOpinion EXCEPT ![k] = "unlike"]
           ELSE /\ LikeBody(t)
                /\ lastOpinion' = [lastOpinion EXCEPT ![k] = "like"]
  /\ oop' = "onToggleLike"
  /\ UNCHANGED opinionFrame

\* the dislike button of the card: onToggleDislike(t, isDislikedKey(k))
DislikeToggled ==
  /\ \E t \in OpinionTracks :
       LET k == trackKey(t)
       IN  IF isDislikedKey(k)
           THEN /\ Undislike(k)
                /\ UNCHANGED <<likeSet, asyncCalls>> /\ ListKept /\ DatesKept
                /\ lastOpinion' = [lastOpinion EXCEPT ![k] = "undislike"]
           ELSE /\ DislikeBody(t)
                /\ lastOpinion' = [lastOpinion EXCEPT ![k] = "dislike"]
  /\ oop' = "onToggleDislike"
  /\ UNCHANGED opinionFrame

\* a call of persistAddLike goes on after await getCurrentUser()
PersistAddLikeResumes ==
  /\ \E c \in DOMAIN asyncCalls :
       /\ asyncCalls[c].awaits
       /\ asyncCalls[c].fn = "persistAddLike"
       /\ AddLike(asyncCalls[c].t)
       /\ asyncCalls' = [asyncCalls EXCEPT ![c].awaits = FALSE]
  /\ DislikesKept
  /\ oop' = "persistAddLike"
  /\ UNCHANGED <<lastOpinion, opinionFrame>>

\* a call of removeFromLikesEverywhere goes on after await getCurrentUser()
RemoveFromLikesResumes ==
  /\ \E c \in DOMAIN asyncCalls :
       /\ asyncCalls[c].awaits
       /\ asyncCalls[c].fn = "removeFromLikesEverywhere"
       /\ RemoveLike(asyncCalls[c].t)
       /\ asyncCalls' = [asyncCalls EXCEPT ![c].awaits = FALSE]
  /\ DislikesKept /\ DatesKept
  /\ oop' = "removeFromLikesEverywhere"
  /\ UNCHANGED <<lastOpinion, opinionFrame>>

\* either revision, started with nothing stored; V1.14 with or without a
\* signed-in user
InitOpinions ==
  /\ IdleDiv /\ IdleSeeds /\ IdleFetch
  /\ \E r \in {"V1.8", "V1.14"} :
       /\ IdleFeedOf(r)
       /\ currentUser \in (IF r = "V1.8" THEN {<<>>} ELSE {<<>>, UserAnn})
  /\ dlist = <<>> /\ dout = <<>> /\ dtwice = <<>> /\ dop = "build"
  /\ appTracks = <<>> /\ loads = <<>> /\ likesRef = {} /\ dislikesRef = {}
  /\ IdleBesideOpinion
  /\ likeSet = {}
  /\ likedPersistentSetRef = {}
  /\ likedPersistent = <<>>
  /\ storedLiked = EmptyObj
  /\ asyncCalls = <<>>
  /\ lastOpinion = [k \in {trackKey(t) : t \in OpinionTracks} |-> "none"]
  /\ oop = "idle"

NextOpinions ==
  \/ LikeSwiped
  \/ DislikeSwiped
  \/ LikeToggled
  \/ DislikeToggled
  \/ PersistAddLikeResumes
  \/ RemoveFromLikesResumes

\* likes and dislikes of the tracks of a feed, in either revision
SpecOpinions == InitOpinions /\ [][NextOpinions]_vars

\* ------------------------------------------- part_000: the feed screen
\* the refreshDiscoveryFeed calls, the openLikedInFeed calls and the
\* refresh timers that may be under way at the same time
MaxSwipes == 1
RefreshSlots == {1}
JumpSlots == {1}
Timers == {0, 1}

Url == <<"u">>
NoUrl == <<>>

\* a track of the feed, with or without a previewUrl
Card(n, url) ==
  [id |-> Num(n), title |-> TitleHit, artist |-> <<Upper[n]>>,
   album |-> AlbumLP, genreName |-> <<>>, previewUrl |-> url]

\* what a fetch, filtered, may hand to setTracks
Feeds ==
  { <<>>, <<Card(1, Url), Card(2, Url)>>, <<Card(3, NoUrl), Card(1, Url)>> }

\* the track a liked list, a search result or a deep link may open: some
\* feeds have it, some have not
LikedCards == {Card(2, Url)}

\* list[index]?.previewUrl is truthy (index counts from 0)
HasPreview(list, index) ==
  /\ index + 1 \in DOMAIN list
  /\ list[index + 1].previewUrl # <<>>

\* playPreview(index), taken as one step, on the flag and the sound:
\* V1.14 returns at once when suppressNextAutoplayRef is set; without a
\* previewUrl it stops the audio; else it stops and starts list[index]
playPreview(r, list, index, flag, cur) ==
  IF r = "V1.14" /\ flag THEN [suppress |-> FALSE, playing |-> cur]
  ELSE IF ~HasPreview(list, index) THEN [suppress |-> flag, playing |-> Null]
  ELSE [suppress |-> flag, playing |-> trackKey(list[index + 1])]

\* the effect on [activeIndex, playPreview]: V1.8 tests the flag itself,
\* V1.14 calls playPreview
autoplayEffect(r, list, index, flag, cur) ==
  IF r = "V1.8" /\ flag THEN [suppress |-> FALSE, playing |-> cur]
  ELSE playPreview(r, list, index, flag, cur)

\* the effect after setActiveIndex(index): it runs when the index changed
AfterSetActiveIndex(list, index, flag, cur) ==
  IF index # activeIndex THEN autoplayEffect(rev, list, index, flag, cur)
  ELSE [suppress |-> flag, playing |-> cur]

\* the effect on [showGenresQuick, ..., showProfile] of V1.14, on
\* needRestoreScrollRef and suppressNextAutoplayRef
RestoreEffect(r, ov, need, flag) ==
  IF r = "V1.14" /\ ov = "none" /\ need
  THEN [need |-> FALSE, suppress |-> TRUE]
  ELSE [need |-> need, suppress |-> flag]

\* the test of onViewableItemsChanged that compares indexes
LeavesLockByIndex(lock, lockIndex, list, index) ==
  /\ lock # Null
  /\ index + 1 \in DOMAIN list
  /\ index # lockIndex

\* onViewableItemsChanged (V1.14): if (goLockIdRef.current) { cur =
\* tracksRef.current[vi.index]; curKey = cur ? trackKey(cur) : null;
\* if (curKey && curKey !== goLockIdRef.current) ...
LeavesLock(lock, lockIndex, list, index) ==
  /\ lock # Null
  /\ index + 1 \in DOMAIN list
  /\ trackKey(list[index + 1]) # lock

\* closing an overlay that calls refreshDiscoveryFeed
RefreshesAfterCloseWithRefresh(running) ==
  IF \E s \in RefreshSlots : running[s] = "idle"
  THEN [running EXCEPT ![CHOOSE s \in RefreshSlots : running[s] = "idle"] = "fetching"]
  ELSE running

\* closeOverlaysNoRefresh and onBack call no refreshDiscoveryFeed
RefreshesAfterClose(running) == running

\* loadLiked(): V1.8 reads LIKED_SONGS_KEY; V1.14 returns [] with no user
\* and reads `${LIKED_SONGS_KEY}:${u}` else; || "[]" for a missing item
loadLiked(store, r, u) ==
  LET key == IF r = "V1.8" THEN <<>> ELSE u
  IN  IF r = "V1.14" /\ u = <<>> THEN <<>>
      ELSE IF key \in DOMAIN store THEN store[key] ELSE <<>>

screenFrame == <<divVars, filterVars, seedVars, fetchVars, dedupeVars,
                 loadVars, besideScreen>>

\* refreshDiscoveryFeed up to its fetch: V1.14 clears the Go lock; both
\* stop the audio
RefreshStarts ==
  /\ \E s \in RefreshSlots :
       /\ refreshCalls[s] = "idle"
       /\ refreshCalls' = [refreshCalls EXCEPT ![s] = "fetching"]
  /\ goLockIdRef' = Null
  /\ goLockIndexRef' = 0 - 1
  /\ playing' = Null

\* openSessionLikesList, openGenresQuickList, openProfileFull; V1.14 calls
\* captureBeforeOverlay first
OpenOverlay ==
  /\ overlay = "none"
  /\ overlay' \in {"profile", "genres", "likedSession"}
  /\ IF rev = "V1.14"
     THEN /\ lastIndexBeforeOverlayRef' = activeIndex
          /\ needRestoreScrollRef' = TRUE
     ELSE UNCHANGED <<lastIndexBeforeOverlayRef, needRestoreScrollRef>>
  /\ scr' = "openOverlay"
  /\ UNCHANGED <<tracksRef, activeIndex, goLockIdRef, goLockIndexRef,
                 suppressNextAutoplayRef, playing, refreshCalls, scheduled,
                 jumps>>
  /\ UNCHANGED screenFrame

\* onOpenLiked of the profile screen
OpenLikedFromProfile ==
  /\ overlay = "profile"
  /\ overlay' = "likedPersistent"
  /\ scr' = "onOpenLiked"
  /\ UNCHANGED <<tracksRef, activeIndex, goLockIdRef, goLockIndexRef,
                 suppressNextAutoplayRef, needRestoreScrollRef,
                 lastIndexBeforeOverlayRef, playing, refreshCalls, scheduled,
                 jumps>>
  /\ UNCHANGED screenFrame

\* Close and the edge swipe call closeOverlaysNoRefresh; hardware Back
\* calls onBack, which in V1.14 calls it too and in V1.8 sets the flag and
\* hides the overlay; the restore effect of V1.14 follows the render
CloseOverlay ==
  /\ overlay # "none"
  /\ \E way \in {"close", "edge", "back"} :
       scr' = (IF way = "back" THEN "onBack" ELSE "closeOverlaysNoRefresh")
  /\ overlay' = "none"
  /\ suppressNextAutoplayRef' = TRUE
  /\ needRestoreScrollRef' =
       (IF rev = "V1.14" THEN RestoreEffect(rev, "none", TRUE, TRUE).need
        ELSE needRestoreScrollRef)
  /\ refreshCalls' = RefreshesAfterClose(refreshCalls)
  /\ UNCHANGED <<tracksRef, activeIndex, goLockIdRef, goLockIndexRef,
                 lastIndexBeforeOverlayRef, playing, scheduled, jumps>>
  /\ UNCHANGED screenFrame

\* applySessionGenres(ids): setShowGenresQuick(false), refreshDiscoveryFeed
\* up to its fetch, then the render and the restore effect
ApplyGenres ==
  /\ overlay = "genres"
  /\ overlay' = "none"
  /\ RefreshStarts
  /\ LET eff == RestoreEffect(rev, "none", needRestoreScrollRef,
                              suppressNextAutoplayRef)
     IN  /\ needRestoreScrollRef' = eff.need
         /\ suppressNextAutoplayRef' = eff.suppress
  /\ scr' = "applySessionGenres"
  /\ UNCHANGED <<tracksRef, activeIndex, lastIndexBeforeOverlayRef,
                 scheduled, jumps>>
  /\ UNCHANGED screenFrame

\* refreshForProfile for the current user u, the onDone of the profile
\* screen: the overlays close (and the restore effect runs), V1.14 loads
\* the liked list of u, then refreshDiscoveryFeed runs up to its fetch
ProfileRefreshed(u) ==
  /\ overlay = "profile"
  /\ overlay' = "none"
  /\ LET eff == RestoreEffect(rev, "none", needRestoreScrollRef,
                              suppressNextAutoplayRef)
     IN  /\ needRestoreScrollRef' = eff.need
         /\ suppressNextAutoplayRef' = eff.suppress
  /\ IF rev = "V1.14"
     THEN \E liked \in {dedupeById(loadLiked(storedLiked, rev, u))} :
            /\ likedPersistent' = liked
            /\ likedPersistentSetRef' = KeysOf(liked)
     ELSE UNCHANGED <<likedPersistent, likedPersistentSetRef>>
  /\ RefreshStarts
  /\ scr' = "refreshForProfile"
  /\ UNCHANGED <<tracksRef, activeIndex, lastIndexBeforeOverlayRef,
                 scheduled, jumps>>
  /\ UNCHANGED <<likeSet, storedLiked, asyncCalls, lastOpinion, oop>>
  /\ UNCHANGED <<divVars, filterVars, seedVars, fetchVars, dedupeVars,
                 loadVars, besideOpinionScreenAndAuth>>

\* Save & Apply of the profile screen: onDone()
SaveProfile ==
  /\ ProfileRefreshed(currentUser)
  /\ UNCHANGED <<currentUser, authVars>>

\* the Refresh button of the empty feed: refreshDiscoveryFeed()
RefreshPressed ==
  /\ overlay = "none"
  /\ RefreshStarts
  /\ scr' = "refreshDiscoveryFeed"
  /\ UNCHANGED <<tracksRef, activeIndex, overlay, suppressNextAutoplayRef,
                 needRestoreScrollRef, lastIndexBeforeOverlayRef, scheduled,
                 jumps>>
  /\ UNCHANGED screenFrame

\* the fetch of a refresh resolves: setTracks(res), setActiveIndex(0), the
\* render and its effects
RefreshFetched ==
  /\ \E s \in RefreshSlots, res \in Feeds :
       /\ refreshCalls[s] = "fetching"
       /\ refreshCalls' = [refreshCalls EXCEPT ![s] = "sleeping"]
       /\ tracksRef' = res
       /\ LET eff == AfterSetActiveIndex(res, 0, suppressNextAutoplayRef, playing)
          IN  /\ suppressNextAutoplayRef' = eff.suppress
              /\ playing' = eff.playing
  /\ activeIndex' = 0
  /\ scr' = "setTracks"
  /\ UNCHANGED <<goLockIdRef, goLockIndexRef, overlay, needRestoreScrollRef,
                 lastIndexBeforeOverlayRef, scheduled, jumps>>
  /\ UNCHANGED screenFrame

\* the fetch of a refresh throws: Alert.alert("Feed", ...)
RefreshFails ==
  /\ \E s \in RefreshSlots :
       /\ refreshCalls[s] = "fetching"
       /\ refreshCalls' = [refreshCalls EXCEPT ![s] = "idle"]
  /\ scr' = "alert"
  /\ UNCHANGED <<tracksRef, activeIndex, goLockIdRef, goLockIndexRef, overlay,
                 suppressNextAutoplayRef, needRestoreScrollRef,
                 lastIndexBeforeOverlayRef, playing, scheduled, jumps>>
  /\ UNCHANGED screenFrame

\* a refresh goes on after sleep(80): await playPreview(0), and returns
RefreshPlays ==
  /\ \E s \in RefreshSlots :
       /\ refreshCalls[s] = "sleeping"
       /\ refreshCalls' = [refreshCalls EXCEPT ![s] = "idle"]
  /\ LET res == playPreview(rev, tracksRef, 0, suppressNextAutoplayRef, playing)
     IN  /\ suppressNextAutoplayRef' = res.suppress
         /\ playing' = res.playing
  /\ scr' = "refreshed"
  /\ UNCHANGED <<tracksRef, activeIndex, goLockIdRef, goLockIndexRef, overlay,
                 needRestoreScrollRef, lastIndexBeforeOverlayRef, scheduled,
                 jumps>>
  /\ UNCHANGED screenFrame

\* the list reports another viewable card: onViewableItemsChanged, the
\* render and the autoplay effect
ViewableChanged ==
  /\ overlay = "none"
  /\ \E index \in 0..(Len(tracksRef) - 1) :
       /\ activeIndex' = index
       /\ IF rev = "V1.14"
             /\ LeavesLock(goLockIdRef, goLockIndexRef, tracksRef, index)
          THEN /\ scheduled + 1 \in Timers
               /\ goLockIdRef' = Null
               /\ goLockIndexRef' = 0 - 1
               /\ scheduled' = scheduled + 1
          ELSE UNCHANGED <<goLockIdRef, goLockIndexRef, scheduled>>
       /\ LET eff == AfterSetActiveIndex(tracksRef, index,
                                         suppressNextAutoplayRef, playing)
          IN  /\ suppressNextAutoplayRef' = eff.suppress
              /\ playing' = eff.playing
  /\ scr' = "onViewableItemsChanged"
  /\ UNCHANGED <<tracksRef, overlay, needRestoreScrollRef,
                 lastIndexBeforeOverlayRef, refreshCalls, jumps>>
  /\ UNCHANGED screenFrame

\* a timer of onViewableItemsChanged fires: refreshDiscoveryFeed()
ScheduledRefreshRuns ==
  /\ scheduled > 0
  /\ scheduled' = scheduled - 1
  /\ RefreshStarts
  /\ scr' = "setTimeout"
  /\ UNCHANGED <<tracksRef, activeIndex, overlay, suppressNextAutoplayRef,
                 needRestoreScrollRef, lastIndexBeforeOverlayRef, jumps>>
  /\ UNCHANGED screenFrame

\* onCardSwiped(idx, dir, item) on the active card: onLike or onDislike
CardSwiped ==
  /\ overlay = "none"
  /\ Len(asyncCalls) < MaxSwipes
  /\ activeIndex + 1 \in DOMAIN tracksRef
  /\ LET item == tracksRef[activeIndex + 1]
     IN  \/ /\ LikeBody(item)
            /\ oop' = "onLike"
         \/ /\ DislikeBody(item)
            /\ oop' = "onDislike"
  /\ scr' = "onCardSwiped"
  /\ UNCHANGED <<tracksRef, activeIndex, goLockIdRef, goLockIndexRef, overlay,
                 suppressNextAutoplayRef, needRestoreScrollRef,
                 lastIndexBeforeOverlayRef, playing, refreshCalls, scheduled,
                 jumps>>
  /\ UNCHANGED <<divVars, feedKept, seedVars, fetchVars, dedupeVars, loadVars,
                 besideOpinionAndScreen, currentUser, lastOpinion>>

\* openLikedInFeed(track) of V1.14, from a liked list, a search result or a
\* deep link, up to await stopAudio()
OpenLikedInFeed ==
  /\ rev = "V1.14"
  /\ \E j \in JumpSlots, track \in LikedCards :
       /\ jumps[j].pc = "idle"
       /\ jumps' = [jumps EXCEPT ![j] = [pc |-> "stopped", track |-> track,
                                         finalIdx |-> 0 - 1]]
  /\ needRestoreScrollRef' = FALSE
  /\ suppressNextAutoplayRef' = FALSE
  /\ playing' = Null
  /\ scr' = "openLikedInFeed"
  /\ UNCHANGED <<tracksRef, activeIndex, goLockIdRef, goLockIndexRef, overlay,
                 lastIndexBeforeOverlayRef, refreshCalls, scheduled>>
  /\ UNCHANGED screenFrame

\* openLikedInFeed after await stopAudio(): the track is put in front
\* unless the feed has its key, the overlays close, the render and the
\* restore effect follow
JumpCloses ==
  /\ \E j \in JumpSlots :
       /\ jumps[j].pc = "stopped"
       /\ jumps' = [jumps EXCEPT ![j].pc = "waiting"]
       /\ tracksRef' =
            (IF trackKey(jumps[j].track) \in KeysOf(tracksRef) THEN tracksRef
             ELSE <<jumps[j].track>> \o tracksRef)
  /\ overlay' = "none"
  /\ LET eff == RestoreEffect(rev, "none", needRestoreScrollRef,
                              suppressNextAutoplayRef)
     IN  /\ needRestoreScrollRef' = eff.need
         /\ suppressNextAutoplayRef' = eff.suppress
  /\ scr' = "setShowLiked"
  /\ UNCHANGED <<activeIndex, goLockIdRef, goLockIndexRef,
                 lastIndexBeforeOverlayRef, playing, refreshCalls, scheduled>>
  /\ UNCHANGED screenFrame

\* waitForIndexById returns: the first index of the key, setActiveIndex and
\* the autoplay effect; or -1 after its tries when the feed has lost the key
JumpFinds ==
  /\ \E j \in JumpSlots :
       /\ jumps[j].pc = "waiting"
       /\ LET id   == trackKey(jumps[j].track)
              hits == {k \in DOMAIN tracksRef : trackKey(tracksRef[k]) = id}
          IN  IF hits = {}
              THEN /\ jumps' = [jumps EXCEPT ![j].pc = "idle"]
                   /\ UNCHANGED <<activeIndex, suppressNextAutoplayRef, playing>>
              ELSE LET finalIdx == (CHOOSE k \in hits : \A h \in hits : k <= h) - 1
                       eff == AfterSetActiveIndex(tracksRef, finalIdx,
                                                  suppressNextAutoplayRef, playing)
                   IN  /\ jumps' = [jumps EXCEPT ![j].pc = "sleeping",
                                                 ![j].finalIdx = finalIdx]
                       /\ activeIndex' = finalIdx
                       /\ suppressNextAutoplayRef' = eff.suppress
                       /\ playing' = eff.playing
  /\ scr' = "waitForIndexById"
  /\ UNCHANGED <<tracksRef, goLockIdRef, goLockIndexRef, overlay,
                 needRestoreScrollRef, lastIndexBeforeOverlayRef, refreshCalls,
                 scheduled>>
  /\ UNCHANGED screenFrame

\* openLikedInFeed after sleep(120): await playPreview(finalIdx), then the
\* Go lock is set
JumpPlays ==
  /\ \E j \in JumpSlots :
       /\ jumps[j].pc = "sleeping"
       /\ jumps' = [jumps EXCEPT ![j].pc = "idle"]
       /\ LET res == playPreview(rev, tracksRef, jumps[j].finalIdx,
                                 suppressNextAutoplayRef, playing)
          IN  /\ suppressNextAutoplayRef' = res.suppress
              /\ playing' = res.playing
       /\ goLockIdRef' = trackKey(jumps[j].track)
       /\ goLockIndexRef' = jumps[j].finalIdx
  /\ scr' = "goLock"
  /\ UNCHANGED <<tracksRef, activeIndex, overlay, needRestoreScrollRef,
                 lastIndexBeforeOverlayRef, refreshCalls, scheduled>>
  /\ UNCHANGED screenFrame

\* the screen after the initial load of a feed: setTracks(initial),
\* setActiveIndex(0), playPreview(0)
LoadedScreen(r) ==
  /\ IdleDiv /\ IdleSeeds /\ IdleFetch
  /\ IdleFeedOf(r)
  /\ dlist = <<>> /\ dout = <<>> /\ dtwice = <<>> /\ dop = "build"
  /\ appTracks = <<>> /\ loads = <<>> /\ likesRef = {} /\ dislikesRef = {}
  /\ tracksRef \in Feeds
  /\ activeIndex = 0
  /\ goLockIdRef = Null
  /\ goLockIndexRef = 0 - 1
  /\ overlay = "none"
  /\ suppressNextAutoplayRef = FALSE
  /\ needRestoreScrollRef = FALSE
  /\ lastIndexBeforeOverlayRef = 0
  /\ playing = playPreview(r, tracksRef, 0, FALSE, Null).playing
  /\ refreshCalls = [s \in RefreshSlots |-> "idle"]
  /\ scheduled = 0
  /\ jumps = [j \in JumpSlots |-> [pc |-> "idle", track |-> Card(1, NoUrl),
                                   finalIdx |-> 0 - 1]]
  /\ scr = "loaded"

InitOverlays ==
  /\ \E r \in {"V1.8", "V1.14"} : LoadedScreen(r)
  /\ IdleBesideScreen

NextOverlays ==
  \/ OpenOverlay
  \/ OpenLikedFromProfile
  \/ CloseOverlay
  \/ ApplyGenres
  \/ SaveProfile
  \/ RefreshPressed
  \/ RefreshFetched
  \/ RefreshFails
  \/ RefreshPlays
  \/ ViewableChanged

\* the overlays and the refreshes of either revision
SpecOverlays == InitOverlays /\ [][NextOverlays]_vars

InitGoLock ==
  /\ LoadedScreen("V1.14")
  /\ IdleSearch /\ IdleCaller /\ IdleGenres /\ IdleLog /\ IdlePlay /\ IdleReact
  /\ IdleAuth /\ IdleShuf
  /\ currentUser = <<>>
  /\ likeSet = {}
  /\ likedPersistentSetRef = {}
  /\ likedPersistent = <<>>
  /\ storedLiked = EmptyObj
  /\ asyncCalls = <<>>
  /\ lastOpinion = <<>>
  /\ oop = "idle"

NextGoLock ==
  \/ OpenLikedInFeed
  \/ JumpCloses
  \/ JumpFinds
  \/ JumpPlays
  \/ ViewableChanged
  \/ ScheduledRefreshRuns
  \/ CardSwiped
  \/ PersistAddLikeResumes
  \/ RemoveFromLikesResumes
  \/ RefreshPressed
  \/ RefreshFetched
  \/ RefreshFails
  \/ RefreshPlays

\* V1.14: Go from a liked list, the swipes and the refreshes
SpecGoLock == InitGoLock /\ [][NextGoLock]_vars

\* ------------------------------------- part_000 (V1.14): the accounts
UserBob == <<"b", "o", "b">>
Constructor == <<"c", "o", "n", "s", "t", "r", "u", "c", "t", "o", "r">>
PwAnn == <<"s", "e", "c", "r", "e", "t", "1">>
PwBob == <<"h", "u", "n", "t", "e", "r", "2">>
PwUndefined == <<"u", "n", "d", "e", "f", "i", "n", "e", "d">>

\* what may be typed into the username and the password field
TypedNames == {UserAnn, <<" ">> \o UserBob, Constructor, <<"z", "e", "d">>}
TypedPasswords == {PwAnn, PwBob, PwUndefined}

\* the users db with an account for ann and one for bob
TwoAccounts ==
  [u \in {UserAnn, UserBob} |->
     [password |-> IF u = UserAnn THEN PwAnn ELSE PwBob]]

\* names every object inherits from Object.prototype
InheritedNames == {Constructor}

\* db[name] of the object JSON.parse returned: an own record, a member
\* inherited from Object.prototype (truthy, with no password of its own),
\* or undefined
DbGet(db, name) ==
  IF name \in DOMAIN db THEN <<"record", db[name]>>
  ELSE IF name \in InheritedNames THEN <<"function", <<>>>>
  ELSE Undefined

\* rec.password
PasswordOf(rec) ==
  IF rec[1] = "record" THEN Str(rec[2].password) ELSE Undefined

\* String(v) of a string or of undefined
ToStringJs(v) == IF v[1] = "undefined" THEN Str(PwUndefined) ELSE String(v)

\* handleLogin up to setCurrentUser: username.trim() and password are
\* there, rec = db[username.trim()] is truthy and
\* String(rec.password) === String(password)
LoginAccepts(db, username, password) ==
  LET name == Trim(username)
      rec  == DbGet(db, name)
  IN  /\ name # <<>> /\ password # <<>>
      /\ rec # Undefined
      /\ ToStringJs(PasswordOf(rec)) = ToStringJs(Str(password))

\* handleLogin: an Alert, or setCurrentUser(username.trim()) and onDone()
HandleLogin ==
  /\ rev = "V1.14"
  /\ overlay = "profile"
  /\ \E username \in TypedNames, password \in TypedPasswords :
       IF LoginAccepts(usersDb, username, password)
          THEN /\ attempt' = [username |-> username, password |-> password]
               /\ currentUser' = Trim(username)
               /\ ProfileRefreshed(Trim(username))
               /\ aop' = "handleLogin"
          ELSE /\ aop' = "alert"
               /\ UNCHANGED attempt
               /\ UNCHANGED <<divVars, filterVars, seedVars, fetchVars,
                              dedupeVars, loadVars, besideOpinionScreenAndAuth,
                              opinionVars, screenVars>>
  /\ UNCHANGED usersDb

\* handleLogout: clearCurrentUser(), the Alert and onDone()
HandleLogout ==
  /\ rev = "V1.14"
  /\ overlay = "profile"
  /\ currentUser' = <<>>
  /\ ProfileRefreshed(<<>>)
  /\ aop' = "handleLogout"
  /\ UNCHANGED <<usersDb, attempt>>

\* V1.14 after its initial load, with two accounts, a liked list stored
\* for ann, and ann or nobody signed in
InitAuth ==
  /\ LoadedScreen("V1.14")
  /\ IdleSearch /\ IdleCaller /\ IdleGenres /\ IdleLog /\ IdlePlay /\ IdleReact
  /\ IdleShuf
  /\ usersDb = TwoAccounts
  /\ attempt = <<>>
  /\ aop = "idle"
  /\ currentUser \in {<<>>, UserAnn}
  /\ likeSet = {}
  /\ storedLiked = ObjSet(EmptyObj, UserAnn, <<Card(3, NoUrl)>>)
  /\ likedPersistent = dedupeById(loadLiked(storedLiked, "V1.14", currentUser))
  /\ likedPersistentSetRef = KeysOf(likedPersistent)
  /\ asyncCalls = <<>>
  /\ lastOpinion = <<>>
  /\ oop = "idle"

NextAuth ==
  \/ OpenOverlay
  \/ CloseOverlay
  \/ HandleLogin
  \/ HandleLogout
  \/ CardSwiped
  \/ PersistAddLikeResumes
  \/ RemoveFromLikesResumes
  \/ RefreshFetched
  \/ RefreshFails
  \/ RefreshPlays

\* V1.14: logging in and out between swipes
SpecAuth == InitAuth /\ [][NextAuth]_vars

\* ------------------------------------- part_000: shuffleInPlace by turns
MaxShuffleLen == 3

ShuffleValues == {1, 2, 3}

\* the arrays handed to shuffleInPlace: every length from 0, repeats included
ShuffleInputs ==
  UNION {[1..n -> ShuffleValues] : n \in 0..MaxShuffleLen}

\* one turn of the loop: j = Math.floor(rand() * (i + 1)), the swap, i--
ShuffleTurn ==
  /\ shuffleOp = "loop"
  /\ shuffleI > 0
  /\ LET st == ShuffleStep([arr |-> shuffleArr, t |-> shuffleT], shuffleI)
     IN  /\ shuffleArr' = st.arr
         /\ shuffleT' = st.t
  /\ shuffleJ' = FloorScaled(NextState(shuffleT), shuffleI + 1)
  /\ shuffleI' = shuffleI - 1
  /\ UNCHANGED <<shuffleInput, shuffleSeed, shuffleOp>>
  /\ UNCHANGED butShuf

\* the loop test i > 0 fails: return arr
ShuffleReturns ==
  /\ shuffleOp = "loop"
  /\ shuffleI <= 0
  /\ shuffleOp' = "returned"
  /\ UNCHANGED <<shuffleInput, shuffleSeed, shuffleArr, shuffleT, shuffleI,
                 shuffleJ>>
  /\ UNCHANGED butShuf

\* shuffleInPlace(arr, seed) is entered: rand = rng(seed), i = arr.length - 1
InitShuffle ==
  /\ IdleDiv /\ IdleSeeds /\ IdleFetch
  /\ \E r \in Revisions : IdleFeedOf(r)
  /\ dlist = <<>> /\ dout = <<>> /\ dtwice = <<>> /\ dop = "build"
  /\ appTracks = <<>> /\ loads = <<>> /\ likesRef = {} /\ dislikesRef = {}
  /\ IdleSearch /\ IdleCaller /\ IdleGenres /\ IdleLog /\ IdlePlay /\ IdleReact
  /\ IdleOpinion /\ IdleScreen /\ IdleAuth
  /\ shuffleInput \in ShuffleInputs
  /\ shuffleSeed \in SeedSamples
  /\ shuffleArr = shuffleInput
  /\ shuffleT = rng(shuffleSeed)
  /\ shuffleI = Len(shuffleInput) - 1
  /\ shuffleJ = 0 - 1
  /\ shuffleOp = "loop"

NextShuffle ==
  \/ ShuffleTurn
  \/ ShuffleReturns

\* every call of shuffleInPlace within the bounds, turn by turn
SpecShuffle == InitShuffle /\ [][NextShuffle]_vars

\* =================================================================== claims
\* how often the artist (trimmed, lower-cased) occurs in a sequence of tracks
CountArtist(seq, a) == Cardinality({i \in 1..Len(seq) : ArtistKey(seq[i]) = a})

\* no artist, compared trimmed and lower-cased, occurs more than cap times
CapHolds(seq, cap) ==
  \A i \in 1..Len(seq) : CountArtist(seq, ArtistKey(seq[i])) <= cap

\* any two entries of seq[1..n] by the same artist (trimmed, lower-cased)
\* have at least span other entries between them
SpacingHolds(seq, n, span) ==
  \A i \in 1..n, j \in 1..n :
    (i < j /\ ArtistKey(seq[i]) = ArtistKey(seq[j])) => j - i - 1 >= span

\* the same with artists compared as part_000 compares them (trimmed only)
SpacingHoldsTrimOnly(seq, span) ==
  \A i \in 1..Len(seq), j \in 1..Len(seq) :
    (i < j /\ Trim(seq[i].artist) = Trim(seq[j].artist)) => j - i - 1 >= span

\* the artists of a sequence of tracks, in order
ArtistsOf(seq) == [i \in 1..Len(seq) |-> seq[i].artist]

\* the track objects of a sequence of tracks, in order
RefsOf(seq) == [i \in 1..Len(seq) |-> seq[i].ref]

\* no track object occurs twice
DistinctObjects(seq) == Cardinality(Refs(seq)) = Len(seq)

\* first position of track object T in seq, 0 when absent
Pos(seq, T) ==
  LET at == {j \in 1..Len(seq) : seq[j].ref = T.ref}
  IN  IF at = {} THEN 0 ELSE CHOOSE j \in at : \A h \in at : j <= h

\* what the strict first pass of diversify accepted in the recorded call
StrictLen ==
  Len(FirstPass(handed, 1, [result |-> <<>>, countByArtist |-> EmptyMap],
                BIAS_MAX_PER_ARTIST, BIAS_COOLDOWN, target).result)

\* the plain cap-only pass the spec compares diversify with: one forward
\* pass that applies the per-artist cap and the target, nothing else
RECURSIVE CapOnlyPass(_, _, _, _, _)
CapOnlyPass(its, i, acc, cap, tgt) ==
  IF i > Len(its) \/ Len(acc) >= tgt THEN acc
  ELSE IF CountArtist(acc, ArtistKey(its[i])) >= cap
       THEN CapOnlyPass(its, i + 1, acc, cap, tgt)
       ELSE CapOnlyPass(its, i + 1, Append(acc, its[i]), cap, tgt)

\* ---------------------------------------------------------------------- C1
\* C1 (as claimed): every diversify implementation (App.js, part_000 V1.8 and
\* V1.14) returns at most maxPerArtist = 2 tracks per artist, artists being
\* compared trimmed and lower-cased.
C1_PerArtistCapEverywhere ==
  op = "diversify" =>
    /\ CapHolds(result, BIAS_MAX_PER_ARTIST)
    /\ CapHolds(outV18, PER_ARTIST_CAP)
    /\ CapHolds(outV114, PER_ARTIST_CAP)

\* ---------------------------------------------------------------------- C2
\* C2 (as claimed): two same-artist entries accepted by the strict first pass
\* of diversify (App.js) have at least cooldownSpan = 3 accepted entries
\* between them, and in the output of diversify (part_000) every two
\* same-artist entries have.
C2_CooldownSpacing ==
  op = "diversify" =>
    /\ SpacingHolds(result, StrictLen, BIAS_COOLDOWN)
    /\ SpacingHolds(outV18, Len(outV18), ARTIST_COOLDOWN)

\* ---------------------------------------------------------------------- C3
\* C3 (as claimed): for every input sequence, repeated track objects
\* included, and every target >= 1, diversify (App.js) returns at least as
\* many tracks as the plain cap-only pass.
C3_AtLeastCapOnly_Original ==
  (op = "diversify" /\ target >= 1) =>
    Len(result) >= Len(CapOnlyPass(items, 1, <<>>, BIAS_MAX_PER_ARTIST, target))

\* C3 (amended): for every input sequence of pairwise distinct track objects
\* and every target >= 1, diversify (App.js) returns at least as many tracks
\* as the plain cap-only pass.
C3_AtLeastCapOnly ==
  (op = "diversify" /\ target >= 1 /\ DistinctObjects(items)) =>
    Len(result) >= Len(CapOnlyPass(items, 1, <<>>, BIAS_MAX_PER_ARTIST, target))

\* C3 witness: distinct objects, the relaxed fill pass added tracks and the
\* result is exactly as long as the cap-only pass
C3_Witness ==
  /\ op = "diversify"
  /\ target >= 1
  /\ DistinctObjects(items)
  /\ Len(result) > StrictLen
  /\ Len(result) = Len(CapOnlyPass(items, 1, <<>>, BIAS_MAX_PER_ARTIST, target))

\* ---------------------------------------------------------------------- C4
\* the scenario of C4: five distinct tracks by A, A, A, B, C and target 5
C4_Scenario ==
  /\ op = "diversify"
  /\ target = 5
  /\ DistinctObjects(items)
  /\ ArtistsOf(items) = <<Canon(1), Canon(1), Canon(1), Canon(2), Canon(3)>>

\* C4 (as claimed): on [A, A, A, B, C] with target 5 diversify (App.js)
\* returns four tracks by A, A, B, C in that order.
C4_Scenario_Original ==
  C4_Scenario => ArtistsOf(result) = <<Canon(1), Canon(1), Canon(2), Canon(3)>>

\* C4 (amended): on [A, A, A, B, C] with target 5 diversify (App.js) returns
\* four tracks by A, B, C, A in that order: the first A, B and C from the
\* strict pass, then the second A from the fill pass.
C4_ScenarioResult ==
  C4_Scenario =>
    /\ ArtistsOf(result) = <<Canon(1), Canon(2), Canon(3), Canon(1)>>
    /\ RefsOf(result) = <<1, 4, 5, 2>>

\* C4 witness: the scenario has been run
C4_Witness == C4_Scenario /\ Len(result) = 4

\* ---------------------------------------------------------------------- C5
\* C5 (as claimed): for every input and every integer target diversify
\* (App.js) returns at most target tracks.
C5_LengthAtMostTarget ==
  op = "diversify" => Len(result) <= target

\* ---------------------------------------------------------------------- C6
\* C6 (as claimed): adding T's artist to likedArtists never moves T to a
\* later position of the output of biasAndDiversify and never removes T from
\* it.
C6_Monotone_Original ==
  op = "biasAndDiversify" =>
    \A i \in 1..Len(items) :
      LET T  == items[i]
          a  == ArtistKey(T)
          r2 == biasAndDiversify(items, likedArtists \cup {a}, dislikedArtists, target)
      IN  (a \notin likedArtists /\ Pos(result, T) > 0) =>
            (Pos(r2, T) > 0 /\ Pos(r2, T) <= Pos(result, T))

\* C6 (amended): adding T's artist to likedArtists never moves T to a later
\* position of the score-ordered sequence biasAndDiversify hands to the
\* diversifier (in the diversified output T can move back or drop out).
C6_MonotoneInHandedOrder ==
  op = "biasAndDiversify" =>
    \A i \in 1..Len(items) :
      LET T  == items[i]
          a  == ArtistKey(T)
          h2 == HandedToDiversify(items, likedArtists \cup {a}, dislikedArtists)
      IN  a \notin likedArtists => Pos(h2, T) <= Pos(handed, T)

\* C6 witness: a like that moves a track forward in the handed order
C6_Witness ==
  /\ op = "biasAndDiversify"
  /\ \E i \in 1..Len(items) :
       /\ ArtistKey(items[i]) \notin likedArtists
       /\ Pos(HandedToDiversify(items, likedArtists \cup {ArtistKey(items[i])},
                                dislikedArtists), items[i])
            < Pos(handed, items[i])

\* ---------------------------------------------------------------------- C7
\* the score the spec gives an artist: +2 liked, -2 disliked, 0 otherwise and
\* 0 when in both sets
SpecScore(it) ==
  LET a == ArtistKey(it)
  IN  CASE a \in likedArtists /\ a \notin dislikedArtists -> 2
        [] a \in dislikedArtists /\ a \notin likedArtists -> -2
        [] OTHER -> 0

\* C7: the sequence handed to the diversifier is a reordering of the input,
\* descending by score (liked before neutral before disliked, both-sets
\* scoring 0), and tracks of equal score keep their input order.
C7_HandedOrder ==
  op = "biasAndDiversify" =>
    /\ Len(handed) = Len(items)
    /\ \A i \in 1..Len(items) : Pos(handed, items[i]) > 0
    /\ LET score == [i \in 1..Len(handed) |-> SpecScore(handed[i])]
           from  == [i \in 1..Len(handed) |-> Pos(items, handed[i])]
       IN  \A i \in 1..Len(handed), j \in 1..Len(handed) :
             i < j =>
               /\ score[i] >= score[j]
               /\ score[i] = score[j] => from[i] < from[j]

\* C7 witness: a liked, a neutral and a disliked track, reordered
C7_Witness ==
  /\ op = "biasAndDiversify"
  /\ handed # items
  /\ \E i \in 1..Len(items) : SpecScore(items[i]) = 2
  /\ \E i \in 1..Len(items) : SpecScore(items[i]) = 0
  /\ \E i \in 1..Len(items) : SpecScore(items[i]) = -2

\* ---------------------------------------------------------------------- C8
\* the tracks of a list whose key is in a set of disliked keys
DislikedIn(list, S) == {i \in 1..Len(list) : trackKey(list[i]) \in S}

\* C8: filter floor.  Whatever the fetched list, the disliked set, the liked
\* and played timestamps and the genre selection: if at least 5 tracks
\* survive the karaoke removal, applyGlobalFilters returns at least 5 tracks.
C8_FilterFloor ==
  (fop = "filtered" /\ Len(KaraokeStage(fetched)) >= 5) => Len(tracks) >= 5

\* exactly 5 tracks survive the karaoke removal, one of them is disliked,
\* and the call returned 5 tracks: the dislike removal was skipped
C8_Witness ==
  /\ fop = "filtered"
  /\ Len(KaraokeStage(fetched)) = 5
  /\ DislikedIn(KaraokeStage(fetched), dislikedPersistentRef) # {}
  /\ Len(tracks) = 5

\* --------------------------------------------------------------------- C10
\* the tracks of a list that were not liked inside the cooldown window
NotLikedRecently(list) ==
  SelectSeq(list, LAMBDA t : ~(ObjGet(likedDatesRef, PropKey(trackKey(t))) > cutoffRef))

\* the tracks of a list that were not played inside the cooldown window
NotPlayedRecently(list) ==
  SelectSeq(list, LAMBDA t : ~(ObjGet(playedDatesRef, PropKey(trackKey(t))) > cutoffRef))

\* what enters the cooldown stage
CooldownInput == DislikedStage(KaraokeStage(fetched), Prefs)

\* C10 as stated: with no genre selection (so that the cooldown stage is the
\* last one to act), the removal of the tracks liked or played inside the
\* window takes effect iff the tracks that remain are at least 60% of the
\* tracks that entered the stage; otherwise the input passes unchanged.
C10_SixtyPercentOfInput_Original ==
  (fop = "filtered" /\ idsForTighten = <<>>) =>
    LET remain == IF rev = "V1.8" THEN NotLikedRecently(CooldownInput)
                  ELSE NotPlayedRecently(NotLikedRecently(CooldownInput))
    IN  tracks = IF 10 * Len(remain) >= 6 * Len(CooldownInput)
                 THEN remain ELSE CooldownInput

\* C10 amended: the thresholds are absolute.  The removal of the tracks
\* liked inside the window takes effect iff at least 12 tracks (60% of PAGE)
\* remain, otherwise the input passes unchanged; in V1.14 the removal of the
\* tracks played inside the window then takes effect iff at least 10 tracks
\* (min(10, PAGE/2)) remain, otherwise what the liked removal left passes
\* unchanged.
C10_AbsoluteThresholds ==
  (fop = "filtered" /\ idsForTighten = <<>>) =>
    LET notLiked  == NotLikedRecently(CooldownInput)
        cooled    == IF Len(notLiked) >= 12 THEN notLiked ELSE CooldownInput
        notPlayed == NotPlayedRecently(cooled)
    IN  tracks = IF rev = "V1.8" THEN cooled
                 ELSE IF Len(notPlayed) >= 10 THEN notPlayed ELSE cooled

\* a recently liked track entered the stage, at least 12 tracks remain
\* without it, and the call returned exactly those
C10_Witness ==
  /\ fop = "filtered"
  /\ idsForTighten = <<>>
  /\ rev = "V1.8"
  /\ Len(NotLikedRecently(CooldownInput)) >= 12
  /\ NotLikedRecently(CooldownInput) # CooldownInput
  /\ tracks = NotLikedRecently(CooldownInput)

\* ---------------------------------------------------------------------- C9
\* C9: disliked stage.  Right after a call of applyGlobalFilters: when
\* removing the tracks the user holds disliked leaves at least 5 tracks, the
\* feed contains no disliked track, and otherwise the stage passes its input
\* unchanged; for dislikes of this session and for dislikes reloaded at
\* start-up, for numeric and string ids alike.
C9_DislikedStage ==
  fop = "filtered" =>
    LET list == KaraokeStage(fetched)
        kept == SelectSeq(list, LAMBDA t : trackKey(t) \notin userDisliked)
    IN  IF Len(kept) >= 5
        THEN DislikedIn(tracks, userDisliked) = {}
        ELSE DislikedStage(list, Prefs) = list

\* --------------------------------------------------------------------- C11
\* what enters the genre stage
GenreInput ==
  IF rev = "V1.8" THEN LikedCooldownStage(CooldownInput, Prefs)
  ELSE PlayedCooldownStage(LikedCooldownStage(CooldownInput, Prefs), Prefs)

\* the names, lower-cased, of the requested genres that the revision's genre
\* table knows
RequestedNames ==
  LET table == IF rev = "V1.8" THEN DEFAULT_GENRES ELSE DEFAULT_GENRES_V114
  IN  {ToLowerCase(table[g].name) :
         g \in {h \in 1..Len(table) :
                  \E n \in 1..Len(idsForTighten) : table[h].id = idsForTighten[n]}}

\* the genre label of t contains, case-insensitively, a requested name
LabelContainsRequested(t) ==
  \E name \in RequestedNames :
    \E i \in 1..(Len(t.genreName) - Len(name) + 1) :
      ToLowerCase(SubSeq(t.genreName, i, i + Len(name) - 1)) = name

\* C11 as stated: when genre ids are requested, the stage takes effect iff
\* at least min(10, PAGE/2) = 10 tracks of its input have a label that
\* contains a requested name, and then the output consists of those tracks.
C11_GenreStage_Original ==
  (fop = "filtered" /\ idsForTighten # <<>>) =>
    LET labelled == SelectSeq(GenreInput, LabelContainsRequested)
    IN  tracks = IF Len(labelled) >= 10 THEN labelled ELSE GenreInput

\* C11 amended: a track passes the genre test when its label contains a
\* requested name, and also when it has no genre label at all or when the
\* genre table knows none of the requested ids; the stage takes effect iff
\* at least 10 tracks of its input pass, and then the output consists of the
\* tracks that pass.
C11_GenreStageLenient ==
  (fop = "filtered" /\ idsForTighten # <<>>) =>
    LET passing == SelectSeq(GenreInput,
                     LAMBDA t : \/ RequestedNames = {}
                                \/ t.genreName = <<>>
                                \/ LabelContainsRequested(t))
    IN  tracks = IF Len(passing) >= 10 THEN passing ELSE GenreInput

\* the stage took effect: it removed a track of another genre and kept at
\* least 10, a track without genre label among them
C11_Witness ==
  /\ fop = "filtered"
  /\ idsForTighten = <<GENRE_FALLBACK>>
  /\ Len(tracks) >= 10
  /\ Len(tracks) < Len(GenreInput)
  /\ \E i \in 1..Len(tracks) : tracks[i].genreName = <<>>

\* --------------------------------------------------------------------- C16
\* C16: the seed of the final shuffle differs from the seed of every bucket
\* fetch, for every base seed and every accepted genre list.
C16_FinalSeedDistinct ==
  sop \in {"derived", "rng"} =>
    \A i \in 1..Len(bucketSeeds) : bucketSeeds[i] # finalSeed

\* --------------------------------------------------------------------- C17
\* C17: for every seed that reaches rng, the state the closure starts from
\* lies in 1..2^31-2, every later state stays there, and so every value
\* returned, state / 2147483647, is in [0, 1).
C17_StateInRange ==
  sop = "rng" => (1 <= rngState /\ rngState <= RNG_MODULUS - 1)

\* --------------------------------------------------------------------- C12
\* C12: fetchTracksForGenres called with an empty genre list never throws,
\* whatever the default-genre fetch does.
C12_EmptyListNeverThrows ==
  (idsAccepted = <<>> /\ fphase # "idle") => fphase # "threw"

\* --------------------------------------------------------------------- C13
\* the buckets Promise.all has collected that hold tracks
NonEmptyBuckets == SelectSeq(buckets, LAMBDA b : b # <<>>)

\* whether track t is one of the tracks of a bucket whose fetch succeeded
FromSuccessfulBucket(t) ==
  \E i \in 1..Len(buckets) :
    /\ ~Throws(served[i])
    /\ \E k \in 1..Len(buckets[i]) : buckets[i][k] = t

\* C13: for a non-empty genre list, a failed bucket fetch contributes no
\* tracks and never makes fetchTracksForGenres throw (it throws only out of
\* its one default-genre fetch, made when every bucket is empty); when some
\* bucket is non-empty no default-genre fetch is made and the result is made
\* of the tracks of the successful buckets, one for every key of theirs; when
\* every bucket is empty or failed exactly one default-genre fetch is made.
C13_BucketFaultIsolation ==
  (idsAccepted # <<>> /\ fphase # "idle") =>
    /\ \A i \in 1..Len(calls) :
         (calls[i] = "settled" /\ Throws(served[i])) => buckets[i] = <<>>
    /\ fphase = "threw" => (defaultFetches = 1 /\ NonEmptyBuckets = <<>>)
    /\ (fphase = "returned" /\ NonEmptyBuckets # <<>>) =>
         /\ defaultFetches = 0
         /\ \A k \in 1..Len(fout) : FromSuccessfulBucket(fout[k])
         /\ KeysOf(fout) = UNION {KeysOf(buckets[i]) : i \in 1..Len(buckets)}
    /\ (fphase \in {"fallback", "returned", "threw"} /\ NonEmptyBuckets = <<>>) =>
         defaultFetches = 1

\* a call has returned tracks although one of its bucket fetches failed
C13_Witness ==
  /\ fphase = "returned"
  /\ \E i \in 1..Len(calls) : Throws(served[i])
  /\ NonEmptyBuckets # <<>>
  /\ fout # <<>>

\* --------------------------------------------------------------------- C14
\* C14: when the bucket fetch of one genre never completes,
\* fetchTracksForGenres still returns (or throws) in the end.
C14_HungBucketStillReturns ==
  (fphase = "waiting" /\ \E i \in 1..Len(served) : served[i] = Hang)
    ~> (fphase \in {"returned", "threw"})

\* --------------------------------------------------------------------- C15
\* the places <<position, bucket>> of the non-empty buckets
Places ==
  {pl \in (1..MaxLength(NonEmptyBuckets)) \X (1..Len(NonEmptyBuckets)) :
     pl[1] <= Len(NonEmptyBuckets[pl[2]])}

\* the number of places that come before a place in the order by
\* (position within bucket, bucket order)
PlacesBefore(pl) ==
  Cardinality({q \in Places : q[1] < pl[1] \/ (q[1] = pl[1] /\ q[2] < pl[2])})

\* how many of the first n tracks of the merged sequence were taken from
\* bucket g
Taken(g, n) ==
  Cardinality({k \in 1..n :
    \E p \in 1..Len(NonEmptyBuckets[g]) : NonEmptyBuckets[g][p] = mixed[k]})

\* C15: before the final shuffle the merged sequence holds every element of
\* every non-empty bucket exactly once, ordered by (position within bucket,
\* bucket order); in every prefix the numbers of items taken from two
\* buckets that are not yet exhausted differ by at most 1.
C15_RoundRobin ==
  (fphase = "returned" /\ NonEmptyBuckets # <<>>) =>
    /\ Len(mixed) = Cardinality(Places)
    /\ \A pl \in Places :
         mixed[PlacesBefore(pl) + 1] = NonEmptyBuckets[pl[2]][pl[1]]
    /\ \A n \in 0..Len(mixed) :
         \A g, h \in 1..Len(NonEmptyBuckets) :
           (/\ Taken(g, n) < Len(NonEmptyBuckets[g])
            /\ Taken(h, n) < Len(NonEmptyBuckets[h]))
             => (/\ Taken(g, n) - Taken(h, n) <= 1
                 /\ Taken(h, n) - Taken(g, n) <= 1)

\* two buckets of different lengths have been merged: the second one is
\* exhausted while the first one still has tracks
C15_Witness ==
  /\ fphase = "returned"
  /\ Len(NonEmptyBuckets) >= 2
  /\ Len(NonEmptyBuckets[1]) > Len(NonEmptyBuckets[2])
  /\ Len(mixed) = Len(NonEmptyBuckets[1]) + Len(NonEmptyBuckets[2])

\* --------------------------------------------------------------------- C18
\* C18: a second run of the pipeline with the same seed, the same answers of
\* the backend and the same preferences ends as the first run did, with the
\* same result of fetchTracksForGenres and the same feed, in whatever order
\* the answers arrive.
C18_Deterministic ==
  (run = 2 /\ fphase \in {"returned", "threw"}) =>
    prevOut = [phase |-> fphase, out |-> fout, feed |-> tracks]

\* the second run has returned tracks merged from two buckets
C18_Witness ==
  /\ run = 2
  /\ fphase = "returned"
  /\ Len(NonEmptyBuckets) >= 2
  /\ NonEmptyBuckets[1] # NonEmptyBuckets[2]
  /\ Len(fout) >= 3
  /\ tracks = fout

\* --------------------------------------------------------------------- C19
\* the places of the list that hold the first occurrence of their key
FirstPlaces ==
  {i \in 1..Len(dlist) :
     \A j \in 1..(i - 1) : trackKey(dlist[j]) # trackKey(dlist[i])}

\* C19: dedupeById is idempotent, and its output is the subsequence of its
\* input made of the first occurrence of each trackKey: no two output tracks
\* share a key, every key of the input appears, and the order is kept.
C19_DedupeFirstOccurrence ==
  dop = "deduped" =>
    /\ dtwice = dout
    /\ Len(dout) = Cardinality(FirstPlaces)
    /\ \A i \in FirstPlaces :
         dout[Cardinality({j \in FirstPlaces : j <= i})] = dlist[i]
    /\ \A i, j \in 1..Len(dout) :
         trackKey(dout[i]) = trackKey(dout[j]) => i = j
    /\ KeysOf(dout) = KeysOf(dlist)

\* a list in which a later, different track repeats the key of an earlier
\* one has been deduplicated, and two tracks are left
C19_Witness ==
  /\ dop = "deduped"
  /\ Len(dout) = 2
  /\ \E i, j \in 1..Len(dlist) :
       /\ i < j
       /\ j < Len(dlist)
       /\ trackKey(dlist[i]) = trackKey(dlist[j])
       /\ dlist[i] # dlist[j]

\* --------------------------------------------------------------------- C20
\* whether seq is a prefix of longer
IsPrefix(seq, longer) ==
  /\ Len(seq) <= Len(longer)
  /\ \A i \in 1..Len(seq) : longer[i] = seq[i]

\* C20: after any sequence of loadMore calls, two in flight at the same time
\* included, the feed only grows at its end and no two tracks of the feed
\* share the key title|artist|album.
C20_AppendOnlyDeduplicated ==
  /\ [](\A i, j \in 1..Len(appTracks) :
          FeedKey(appTracks[i]) = FeedKey(appTracks[j]) => i = j)
  /\ [][IsPrefix(appTracks, appTracks')]_vars


\* --------------------------------------------------------------------- C21
\* whether the record has a property of one of the names title, trackName,
\* name, artist, artistName
HasNameAlias(raw) ==
  \E f \in {"title", "trackName", "name", "artist", "artistName"} :
    f \in DOMAIN raw

\* C21: a record of the response that carries none of the title aliases and
\* none of the artist aliases is in the output neither of fetchTracks nor of
\* fetchSearchTracks.
C21_NamelessNeverReturned ==
  /\ \A k \in 1..Len(tracksOut) : HasNameAlias(rawList[tracksOut[k].ref])
  /\ \A k \in 1..Len(searchOut) : HasNameAlias(rawList[searchOut[k].ref])

\* --------------------------------------------------------------------- C22
\* whether the record has a native id
HasNativeId(raw) == "trackId" \in DOMAIN raw \/ "id" \in DOMAIN raw

\* C22: normalizing a normalized track again leaves its id as it is, whether
\* the record had a native id or not, and two records with the same fields
\* get the same id.
C22_IdRoundTrip ==
  /\ \A k \in 1..Len(renormalized) : renormalized[k].id = normalized[k].id
  /\ \A i, j \in 1..Len(normalized) :
       rawList[i] = rawList[j] => normalized[i].id = normalized[j].id

\* a record with a native id and one without have been normalized twice
C22_Witness ==
  /\ Len(renormalized) = Len(rawList)
  /\ \E i, j \in 1..Len(rawList) :
       /\ "trackId" \in DOMAIN rawList[i]
       /\ ~HasNativeId(rawList[j])
       /\ HasNameAlias(rawList[j])

\* --------------------------------------------------------------------- C23
\* the places of the candidates fetchSearchTracks returned
KeptPlaces ==
  {k \in 1..Len(candidates) :
     \E o \in 1..Len(searchOut) : searchOut[o].ref = candidates[k].ref}

\* C23: the result of fetchSearchTracks of V1.14 is in descending order of
\* relevance, and a candidate is left out only when two candidates of its
\* artist ranked before it were kept, or the limit of 60 was reached.
C23_CapOnlyForSearch ==
  (nop = "searched" /\ normRev = "V1.14") =>
    /\ \A i, j \in 1..Len(searchOut) :
         i < j => scoreTrackRelevance(searchOut[i], term)
                    >= scoreTrackRelevance(searchOut[j], term)
    /\ \A k \in (1..Len(candidates)) \ KeptPlaces :
         \/ Len(searchOut) >= SEARCH_LIMIT
         \/ Cardinality({p \in KeptPlaces :
                           /\ p < k
                           /\ Trim(candidates[p].artist) = Trim(candidates[k].artist)})
              >= PER_ARTIST_CAP

\* --------------------------------------------------------------------- C24
\* the query as scoreTrackRelevance reads it
QueryOf(trm) == Trim(ToLowerCase(trm))

\* a track that differs from another in nothing but the artist: this one
\* with an artist put in
ScoreBases ==
  { [title |-> <<"H", "i", "t">>, album |-> <<"L", "P">>,
     previewUrl |-> <<"u">>, storeUrl |-> <<>>] }

WithArtist(b, a) ==
  [f \in (DOMAIN b) \cup {"artist"} |-> IF f = "artist" THEN a ELSE b[f]]

\* artists that contain the query and are not equal to it
Containing(q) ==
  { q \o <<" ", "x">>, <<"x", " ">> \o q, <<"a", "b", " ">> \o q }

\* C24 as stated: for every query that is not empty, of two tracks that
\* differ in the artist only, the one whose artist equals the query scores
\* strictly higher than the one whose artist contains it.
C24_ExactBeatsContaining_Original ==
  QueryOf(term) # <<>> =>
    \A b \in ScoreBases, a \in Containing(QueryOf(term)) :
      scoreTrackRelevance(WithArtist(b, QueryOf(term)), term)
        > scoreTrackRelevance(WithArtist(b, a), term)

\* C24: for every query of one to 28 tokens, of two tracks that differ in
\* the artist only, the one whose artist equals the query scores strictly
\* higher than the one whose artist contains it.
C24_ExactBeatsContaining ==
  (QueryOf(term) # <<>> /\ Len(Tokens(QueryOf(term))) <= 28) =>
    \A b \in ScoreBases, a \in Containing(QueryOf(term)) :
      scoreTrackRelevance(WithArtist(b, QueryOf(term)), term)
        > scoreTrackRelevance(WithArtist(b, a), term)

\* a search of V1.14 has ranked a track whose artist equals the query before
\* one the backend listed first, whose artist contains the query
C24_Witness ==
  /\ nop = "searched"
  /\ normRev = "V1.14"
  /\ Len(Tokens(QueryOf(term))) <= 28
  /\ Len(searchOut) = 2
  /\ searchOut[1].ref = 2
  /\ ToLowerCase(searchOut[1].artist) = QueryOf(term)
  /\ ToLowerCase(searchOut[2].artist) # QueryOf(term)
  /\ StrIncludes(ToLowerCase(searchOut[2].artist), QueryOf(term))


C26_NonPositiveTargetYieldsNothing ==
  (op = "diversify" /\ target <= 0) => result = <<>>


\* --------------------------------------------------------------------- C27
\* the built-in list of the revision
BuiltInGenres(r) == IF r = "App.js" THEN APP_FALLBACK_GENRES ELSE DefaultGenres(r)

\* whether the list has an entry with one of the ids 16, 1310, 1259, as a
\* number or written as a string
HasOmittedId(list) ==
  \E k \in 1..Len(list) :
    Number(list[k].id)[1] = "number" /\ Number(list[k].id)[2] \in OMIT_GENRE_IDS

\* fetchGenres returns, with a list that is not empty, and with the built-in
\* list when the request fails, the status is not ok, the body is malformed
\* or the server lists nothing
FallsBackToBuiltIn ==
  gop = "done" =>
    /\ genresOut.outcome = "returned"
    /\ genresOut.list # <<>>
    /\ (answer # "list" \/ genreList = <<>>) =>
         genresOut.list = BuiltInGenres(genreRev)

\* C27 as stated: fetchGenres never raises, never returns an empty list,
\* falls back to the built-in list, and no list it returns has an omitted id.
C27_FallbackAndNoOmitted_Original ==
  /\ FallsBackToBuiltIn
  /\ gop = "done" => ~HasOmittedId(genresOut.list)

\* C27: fetchGenres never raises, never returns an empty list, falls back to
\* the built-in list, and no list fetchGenres of part_000 returns has an
\* omitted id.
C27_FallbackAndNoOmitted ==
  /\ FallsBackToBuiltIn
  /\ (gop = "done" /\ genreRev # "App.js") => ~HasOmittedId(genresOut.list)

\* fetchGenres of V1.14 has returned a list with a genre of the server when
\* the server listed that genre and omitted ones, one of them with the id as
\* a string
C27_Witness ==
  /\ gop = "done"
  /\ genreRev = "V1.14"
  /\ answer = "list"
  /\ \E i, j \in 1..Len(genreList) :
       /\ genreList[i].id = Str(<<"1", "6">>)
       /\ ~Omitted(genreList[j])
       /\ \E k \in 1..Len(genresOut.list) : genresOut.list[k] = genreList[j]


\* --------------------------------------------------------------------- C28
\* the rows of the valid events of the batch of the request
BatchRows ==
  IF request = <<>> THEN <<>>
  ELSE RowsOf(BodyOf(request).events[2], BodyOf(request).user_id,
              BodyOf(request).session_id)

\* C28: at every moment the table holds no row of the batch or the rows of
\* all its valid events; it holds them all when the response is 204 and none
\* when the response is 500.
C28_AllOrNothing ==
  lop \in {"transaction", "committed", "rejected", "responded"} =>
    /\ eventsTable = <<>> \/ eventsTable = BatchRows
    /\ response.status = 204 => (eventsTable = BatchRows /\ BatchRows # <<>>)
    /\ response.status = 500 => eventsTable = <<>>

\* the second insert of a batch has failed after the first went through,
\* and the response is 500
C28_Witness ==
  /\ lop = "responded"
  /\ response.status = 500
  /\ cursor = 1
  /\ Len(BatchRows) = 2
  /\ eventsTable = <<>>

\* --------------------------------------------------------------------- C29
\* whether the event has both of the properties type and ts
HasTypeAndTs(e) ==
  /\ e[1] = "object"
  /\ "type" \in DOMAIN e[2]
  /\ "ts" \in DOMAIN e[2]

\* the status the first failing check of the request asks for: 405 for the
\* method, 401 for the key, 400 for the payload, 400 for a batch without an
\* event that has type and ts; 0 when no check is known to fail
RejectionOf(req) ==
  LET events == IF "events" \in DOMAIN req.body THEN req.body.events
                ELSE <<"array", <<>>>>
  IN  IF req.method # "POST" THEN 405
      ELSE IF req.ingestKey # Undefined /\ req.header # req.ingestKey THEN 401
      ELSE IF "session_id" \notin DOMAIN req.body \/ events[1] # "array" THEN 400
      ELSE IF \A k \in 1..Len(events[2]) : ~HasTypeAndTs(events[2][k]) THEN 400
      ELSE 0

\* C29: the handler writes a row only for a request that passes the checks
\* of method, key, session_id, events and valid events, answers the first
\* check that fails with 405, 401, 400, 400, and writes no row of an event
\* that lacks type or ts.
C29_ValidatedBeforeWrite ==
  lop # "idle" =>
    /\ (txWrites # <<>> \/ eventsTable # <<>>) => RejectionOf(request) = 0
    /\ RejectionOf(request) # 0 =>
         (lop = "responded" /\ response.status = RejectionOf(request))
    /\ \A k \in 1..Len(txWrites) : HasTypeAndTs(txWrites[k].payload)
    /\ \A k \in 1..Len(eventsTable) : HasTypeAndTs(eventsTable[k].payload)

\* a batch with a configured key, a valid event and one without ts has been
\* stored: one row
C29_Witness ==
  /\ lop = "responded"
  /\ response.status = 204
  /\ request.ingestKey # Undefined
  /\ Len(BodyOf(request).events[2]) = 2
  /\ Len(eventsTable) = 1
  /\ \E k \in 1..2 : ~HasTypeAndTs(BodyOf(request).events[2][k])


\* --------------------------------------------------------------------- C30
\* the sounds that are loaded and play
PlayingSounds ==
  {s \in DOMAIN sounds : sounds[s].loaded /\ sounds[s].playing}

\* C30: once every call of playItem has finished, at most one sound is
\* loaded and plays, and it is the sound soundRef refers to, made by the
\* call that started last.
C30_NoOverlap ==
  (plays # <<>> /\ \A c \in PlayCalls : plays[c].pc = "done") =>
    /\ Cardinality(PlayingSounds) <= 1
    /\ \A s \in PlayingSounds :
         /\ soundRef = s
         /\ plays[s].token = playTokenRef

\* C31: in App.js no track id is in both the likes and the dislikes, and
\* likedItems has an entry only for ids that are in likes, after any sequence
\* of swipes and toggles
C31_ReactionsExclusive ==
  /\ likesRef \cap dislikesRef = {}
  /\ \A key \in DOMAIN likedItemsRef :
       /\ likedItemsRef[key].id \in likesRef
       /\ PropKey(likedItemsRef[key].id) = key

\* a liked track was disliked afterwards, and its twin is liked
C31_Witness ==
  /\ rop \in {"applySwipe", "toggleDislike"}
  /\ Num(1) \in dislikesRef
  /\ Str(<<"1">>) \in likesRef
  /\ Num(2) \in likesRef
  /\ DOMAIN likedItemsRef = {<<"1">>, <<"2">>}

\* no call of persistAddLike or removeFromLikesEverywhere still awaits
Settled == \A c \in DOMAIN asyncCalls : ~asyncCalls[c].awaits

\* C32: in the part_000 apps, once every pending asynchronous step has
\* finished, no track is presented as liked and as disliked:
\* isLikedKey(k) and isDislikedKey(k) are never both true
C32_NeverLikedAndDisliked ==
  (oop # "idle" /\ Settled) =>
    \A t \in OpinionTracks :
      ~(isLikedKey(trackKey(t)) /\ isDislikedKey(trackKey(t)))

\* C33: last reaction wins in V1.14: once every pending step has finished,
\* a track the user liked last is liked and a track the user disliked last
\* is not, whatever order the awaits resumed in
C33_LastReactionWins ==
  (rev = "V1.14" /\ oop # "idle" /\ Settled) =>
    \A t \in OpinionTracks :
      /\ lastOpinion[trackKey(t)] = "like" => isLikedKey(trackKey(t))
      /\ lastOpinion[trackKey(t)] = "dislike" => ~isLikedKey(trackKey(t))


\* ------------------------------------------------------------------
\* the steps the Go lock is about
IsRefreshStart ==
  \E s \in RefreshSlots : refreshCalls[s] = "idle" /\ refreshCalls'[s] = "fetching"

IsSwipe ==
  /\ scr' = "onCardSwiped"
  /\ Len(asyncCalls') = Len(asyncCalls) + 1

IsLockLeave ==
  /\ scr' = "onViewableItemsChanged"
  /\ goLockIdRef # Null
  /\ activeIndex' + 1 \in DOMAIN tracksRef
  /\ trackKey(tracksRef[activeIndex' + 1]) # goLockIdRef

\* C34: while the Go lock is set a swipe commits its reaction and leaves
\* the track list, the active index, the lock, the refresh timers and the
\* running refreshes as they were; a viewable card with another key clears
\* the lock and schedules one refresh; every refreshDiscoveryFeed that
\* starts clears the lock
C34_GoLock ==
  [][ /\ (IsSwipe /\ goLockIdRef # Null) =>
           UNCHANGED <<tracksRef, activeIndex, goLockIdRef, goLockIndexRef,
                       scheduled, refreshCalls, playing>>
      /\ IsLockLeave => (goLockIdRef' = Null /\ scheduled' = scheduled + 1)
      /\ IsRefreshStart => goLockIdRef' = Null ]_vars

\* the locked card has just been swiped: the lock, the card and the sound
\* are still there and the reaction is on its way
C34_Witness ==
  /\ scr = "onCardSwiped"
  /\ goLockIdRef # Null
  /\ activeIndex = goLockIndexRef
  /\ playing = goLockIdRef
  /\ \E n \in DOMAIN asyncCalls : trackKey(asyncCalls[n].t) = goLockIdRef

\* ------------------------------------------------------------------
\* a step that closes an overlay without applying anything
IsClose ==
  /\ overlay # "none"
  /\ scr' \in {"closeOverlaysNoRefresh", "onBack"}

C36_PlaybackStarts ==
  [][ /\ (scr' = "refreshed" /\ HasPreview(tracksRef', 0)) =>
           playing' = trackKey(tracksRef'[1])
      /\ (activeIndex' # activeIndex /\ HasPreview(tracksRef', activeIndex')) =>
           playing' = trackKey(tracksRef'[activeIndex' + 1]) ]_vars

\* ------------------------------------------------------------------
\* the three parts of the gate on the liked lists
StoredFor(store, u) == IF u \in DOMAIN store THEN store[u] ELSE <<>>

C37_LikesOfNoUser ==
  /\ currentUser = <<>> => storedLiked' = storedLiked
  /\ (currentUser' # currentUser /\ currentUser' = <<>>) => likedPersistent' = <<>>

C37_LikesPerUser ==
  /\ \A u \in DOMAIN storedLiked :
       u # currentUser => (u \in DOMAIN storedLiked' /\ storedLiked'[u] = storedLiked[u])
  /\ currentUser' # currentUser =>
       likedPersistent' = StoredFor(storedLiked', currentUser')

C37_LoginChecked ==
  (currentUser' # currentUser /\ currentUser' # <<>>) =>
     /\ aop' = "handleLogin"
     /\ currentUser' = Trim(attempt'.username)
     /\ currentUser' \in DOMAIN usersDb
     /\ usersDb[currentUser'].password = attempt'.password

\* C37: with no current user no step writes the stored liked lists and a
\* change to no user leaves the liked list empty; a step writes at most
\* the stored list of the current user, and after a change of user the
\* liked list is the one stored for the new user; and the current user
\* changes to a name only by a Log In whose trimmed username has a record
\* in the users db with the typed password
C37_AuthGatedLikes ==
  [][C37_LikesOfNoUser /\ C37_LikesPerUser /\ C37_LoginChecked]_vars

\* ------------------------------------------------------------------
\* how often v occurs in arr
Occurrences(arr, v) == Cardinality({k \in DOMAIN arr : arr[k] = v})

\* C39: shuffleInPlace returns a permutation of its argument for every
\* seed and every length from 0: through every turn the array keeps its
\* length and the number of occurrences of every element, every swap index
\* j lies in [0, i], and what is returned is the value of shuffleInPlace
C39_ShufflePermutes ==
  /\ Len(shuffleArr) = Len(shuffleInput)
  /\ \A v \in ShuffleValues :
       Occurrences(shuffleArr, v) = Occurrences(shuffleInput, v)
  /\ shuffleJ # 0 - 1 => (0 <= shuffleJ /\ shuffleJ <= shuffleI + 1)
  /\ shuffleOp = "returned" =>
       shuffleArr = shuffleInPlace(shuffleInput, shuffleSeed)

\* a call on three different elements has returned them in another order,
\* its last swap having moved the second element
C39_Witness ==
  /\ shuffleOp = "returned"
  /\ shuffleInput = <<1, 2, 3>>
  /\ shuffleArr # shuffleInput
  /\ shuffleJ = 0

\* ------------------------------------------------------------------
\* the keys of the tracks of the non-empty buckets
BucketKeys == UNION {KeysOf(NonEmptyBuckets[i]) : i \in DOMAIN NonEmptyBuckets}

\* C38: when some bucket is non-empty, what fetchTracksForGenres returns
\* holds exactly one track for every key of the non-empty buckets: every
\* returned track is a track of a bucket, every key of a bucket is
\* returned, and no key is returned twice
C38_OneTrackPerKey ==
  (fphase = "returned" /\ NonEmptyBuckets # <<>>) =>
    /\ \A a, b \in DOMAIN fout :
         trackKey(fout[a]) = trackKey(fout[b]) => a = b
    /\ KeysOf(fout) = BucketKeys
    /\ Len(fout) = Cardinality(BucketKeys)
    /\ \A k \in DOMAIN fout :
         \E i \in DOMAIN NonEmptyBuckets :
           \E n \in DOMAIN NonEmptyBuckets[i] : NonEmptyBuckets[i][n] = fout[k]

\* a call has returned fewer tracks than its buckets held, two buckets
\* having brought a track of the same key
C38_Witness ==
  /\ fphase = "returned"
  /\ Len(NonEmptyBuckets) >= 2
  /\ Len(fout) < Len(mixed)
  /\ \E i, j \in DOMAIN NonEmptyBuckets :
       i # j /\ KeysOf(NonEmptyBuckets[i]) \cap KeysOf(NonEmptyBuckets[j]) # {}

\* ------------------------------------------------------------------
\* C40: diversify (App.js) called with cooldown = 0 is a plain cap-only
\* pass: it returns, in input order, the first maxPerArtist tracks of each
\* artist, cut after target tracks
C40_NoCooldownIsCapOnly ==
  op = "noCooldown" =>
    result = CapOnlyPass(items, 1, <<>>, BIAS_MAX_PER_ARTIST, target)
====
